---- MODULE Spec2Model ----
(***************************************************************************)
(* Model of the alert engine of the air-quality monitor                    *)
(* (backend/alerts/alert_manager.py, driven by backend/app.py).            *)
(*                                                                         *)
(* Time is the wall clock datetime.now(), counted in whole minutes.        *)
(* An optional Python value is None == <<>> or Some(x) == <<x>>.            *)
(* A forecast point's hours_ahead is counted in tenths of an hour, the     *)
(* resolution lstm_model.py rounds it to.                                  *)
(***************************************************************************)
EXTENDS Integers, Sequences, FiniteSets, TLC

VARIABLES
    now,               \* datetime.now(), in minutes
    active_alerts,     \* AlertManager.active_alerts
    alert_history,     \* AlertManager.alert_history, deque(maxlen=500)
    reading_buffer,    \* AlertManager.reading_buffer, deque(maxlen=50)
    last_alert_times,  \* AlertManager.last_alert_times
    alert_counter,     \* AlertManager._alert_counter
    callbacks,         \* AlertManager.callbacks
    db_save,           \* AlertManager.db_save, None or the function given
    calls,             \* the calls made of the callbacks and of db_save
    reading_seq,       \* id the database gave the last saved reading
    ret,               \* the last operation and what it returned
    pc,                \* position of every thread inside its handler
    frame              \* locals of every thread's running handler

vars == <<now, active_alerts, alert_history, reading_buffer, last_alert_times,
          alert_counter, callbacks, db_save, calls, reading_seq, ret, pc, frame>>

hook_vars == <<callbacks, db_save, calls>>

mgr_vars == <<active_alerts, alert_history, reading_buffer, last_alert_times,
              alert_counter, hook_vars>>

----------------------------------------------------------------------------
(* Bounds of the model *)

MaxTime == 15            \* the clock stops advancing here
MaxAlerts == 2           \* alerts created in a run of Spec
MaxReadings == 2         \* readings processed in a run of Spec

TickSteps == {10, 15}

----------------------------------------------------------------------------
(* Python values *)

None == <<>>
Some(x) == <<x>>

Get(d, field, default) == IF field \in DOMAIN d THEN d[field] ELSE default

Last(s, n) == IF Len(s) <= n THEN s ELSE SubSeq(s, Len(s) - n + 1, Len(s))

RECURSIVE Sum(_)
Sum(s) == IF s = <<>> THEN 0 ELSE Head(s) + Sum(Tail(s))

Abs(x) == IF x < 0 THEN -x ELSE x

\* datetime.isoformat(): the instant split into its fields (hours, minutes)
isoformat(t) == <<t \div 60, t % 60>>

\* datetime.fromisoformat(): the fields put together again
fromisoformat(s) == s[1] * 60 + s[2]

\* (variant: a full deque takes no new element)
DequeAppend_KeepOldest(q, x, maxlen) ==
    IF Len(q) >= maxlen THEN q ELSE Append(q, x)

\* deque(maxlen=n).append(x)
DequeAppend(q, x, maxlen) ==
    IF Len(q) >= maxlen THEN Append(Tail(q), x) ELSE Append(q, x)

----------------------------------------------------------------------------
(* Configuration: AlertManager.THRESHOLDS and AlertManager.CONFIG *)

THRESHOLDS == <<
    [category |-> "good",                low |-> 0,   high |-> 50],
    [category |-> "moderate",            low |-> 51,  high |-> 100],
    [category |-> "unhealthy_sensitive", low |-> 101, high |-> 150],
    [category |-> "unhealthy",           low |-> 151, high |-> 200],
    [category |-> "very_unhealthy",      low |-> 201, high |-> 300],
    [category |-> "hazardous",           low |-> 301, high |-> 500] >>

threshold_cooldown_minutes == 15
anomaly_window_size == 10
anomaly_std_threshold == 3
predictive_lead_time_hours == 2
max_active_alerts == 50
alert_history_hours == 24
history_maxlen == 500
reading_buffer_maxlen == 50

----------------------------------------------------------------------------
(* The manager as a value, so that a handler's calls compose. With its fields
   goes the record of the calls it has made of the functions it was given. *)

Manager == [active_alerts    |-> active_alerts,
            alert_history    |-> alert_history,
            reading_buffer   |-> reading_buffer,
            last_alert_times |-> last_alert_times,
            alert_counter    |-> alert_counter,
            callbacks        |-> callbacks,
            db_save          |-> db_save,
            calls            |-> calls]

NewManager == [active_alerts    |-> <<>>,
               alert_history    |-> <<>>,
               reading_buffer   |-> <<>>,
               last_alert_times |-> [k \in {} |-> 0],
               alert_counter    |-> 0,
               callbacks        |-> <<>>,
               db_save          |-> None,
               calls            |-> <<>>]

\* What a call on the manager yields: the manager after it and the value returned
Result(m, value) == [m |-> m, value |-> value]

----------------------------------------------------------------------------
(* AlertManager._generate_alert_id *)

\* datetime.now().strftime('%Y%m%d%H%M%S'): the instant, to the clock's resolution
strftime(t) == t

\* f"alert_{stamp}_{counter}"
FormatAlertId(stamp, counter) == <<"alert", stamp, counter>>

generate_alert_id(m, t) ==
    LET m1 == [m EXCEPT !.alert_counter = @ + 1]
    IN  Result(m1, FormatAlertId(strftime(t), m1.alert_counter))

----------------------------------------------------------------------------
(* AlertManager._can_send_alert *)

\* (variant: an elapsed time equal to the cooldown still blocks)
InCooldown_Inclusive(lat, key, t) ==
    /\ key \in DOMAIN lat
    /\ t - lat[key] <= threshold_cooldown_minutes

\* the cooldown test: a record for the key that is younger than the cooldown
InCooldown(lat, key, t) ==
    /\ key \in DOMAIN lat
    /\ t - lat[key] < threshold_cooldown_minutes

\* self.last_alert_times[alert_key] = now
RecordAlertTime(lat, key, t) ==
    [k \in DOMAIN lat \cup {key} |-> IF k = key THEN t ELSE lat[k]]

\* (variant: the time of the alert is not recorded)
can_send_alert_NoRecord(m, key, t) ==
    IF InCooldown(m.last_alert_times, key, t)
    THEN Result(m, FALSE)
    ELSE Result(m, TRUE)

can_send_alert(m, key, t) ==
    IF InCooldown(m.last_alert_times, key, t)
    THEN Result(m, FALSE)
    ELSE Result([m EXCEPT !.last_alert_times = RecordAlertTime(@, key, t)], TRUE)

----------------------------------------------------------------------------
(* AlertManager._get_aqi_category *)

RECURSIVE CategoryFrom(_, _)
CategoryFrom(i, aqi) ==
    IF i > Len(THRESHOLDS) THEN <<"hazardous", 301, 500>>
    ELSE IF THRESHOLDS[i].low <= aqi /\ aqi <= THRESHOLDS[i].high
         THEN <<THRESHOLDS[i].category, THRESHOLDS[i].low, THRESHOLDS[i].high>>
         ELSE CategoryFrom(i + 1, aqi)

\* (variant: the upper edge of a band is left out of the band)
get_aqi_category_OpenHigh(aqi) ==
    LET hits == {i \in 1..Len(THRESHOLDS) :
                    THRESHOLDS[i].low <= aqi /\ aqi < THRESHOLDS[i].high}
        i == CHOOSE i \in hits : \A j \in hits : i <= j
    IN  IF hits = {} THEN <<"hazardous", 301, 500>>
        ELSE <<THRESHOLDS[i].category, THRESHOLDS[i].low, THRESHOLDS[i].high>>

get_aqi_category(aqi) == CategoryFrom(1, aqi)

----------------------------------------------------------------------------
(* AlertManager._cleanup_alerts *)

\* (variant: an alert is kept at the instant it expires)
DropExpired_KeepAtExpiry(alerts, t) ==
    LET Keep(a) == a.expires_at = None \/ fromisoformat(a.expires_at) >= t
    IN  SelectSeq(alerts, Keep)

\* the alerts that have not expired
DropExpired(alerts, t) ==
    LET Keep(a) == a.expires_at = None \/ fromisoformat(a.expires_at) > t
    IN  SelectSeq(alerts, Keep)

\* (variant: every acknowledged alert goes, whatever its age)
DropAcknowledgedOld_AnyAge(alerts, t) ==
    LET Keep(a) == ~a.acknowledged
    IN  SelectSeq(alerts, Keep)

\* (variant: the cutoff of the history, 24 hours, is taken for the hour)
DropAcknowledgedOld_HistoryCutoff(alerts, t) ==
    LET cutoff == t - 24 * 60
        Keep(a) == ~a.acknowledged \/ fromisoformat(a.timestamp) > cutoff
    IN  SelectSeq(alerts, Keep)

\* the alerts that are not acknowledged alerts older than one hour
DropAcknowledgedOld(alerts, t) ==
    LET one_hour_ago == t - 60
        Keep(a) == ~a.acknowledged \/ fromisoformat(a.timestamp) > one_hour_ago
    IN  SelectSeq(alerts, Keep)

\* (variant: the first alerts of the list are kept)
LimitActive_KeepFirst(alerts) ==
    IF Len(alerts) > max_active_alerts
    THEN SubSeq(alerts, 1, max_active_alerts)
    ELSE alerts

\* at most max_active_alerts alerts, the last ones of the list
LimitActive(alerts) ==
    IF Len(alerts) > max_active_alerts
    THEN SubSeq(alerts, Len(alerts) - max_active_alerts + 1, Len(alerts))
    ELSE alerts

\* (variant: the cutoff of alert_history_hours is applied to the active list)
cleanup_alerts_HistoryHours(m, t) ==
    LET cutoff == t - alert_history_hours * 60
        Recent(a) == fromisoformat(a.timestamp) > cutoff
    IN  [m EXCEPT !.active_alerts =
            LimitActive(DropAcknowledgedOld(DropExpired(SelectSeq(@, Recent), t), t))]

cleanup_alerts(m, t) ==
    [m EXCEPT !.active_alerts = LimitActive(DropAcknowledgedOld(DropExpired(@, t), t))]

----------------------------------------------------------------------------
(* AlertManager._create_alert *)

\* expires_at of an alert created at t with the given expires_minutes
ExpiresAt(expires_minutes, t) ==
    IF expires_minutes # None /\ expires_minutes[1] # 0
    THEN isoformat(t + expires_minutes[1])
    ELSE None

\* Alert(...): a holds the keyword arguments of _create_alert
NewAlert(alert_id, a, t) ==
    [id           |-> alert_id,
     type         |-> a.alert_type,
     severity     |-> a.severity,
     title        |-> a.title,
     message      |-> a.message,
     timestamp    |-> isoformat(t),
     reading_id   |-> a.reading_id,
     aqi_value    |-> a.aqi_value,
     acknowledged |-> FALSE,
     auto_dismiss |-> a.auto_dismiss,
     expires_at   |-> ExpiresAt(a.expires_minutes, t),
     metadata     |-> a.metadata]

\* Alert.to_dict(): asdict, the fields one by one
to_dict(alert) == [f \in DOMAIN alert |-> alert[f]]

\* a call of a function the manager was given
Call(target, argument) == [target |-> target, argument |-> argument]

\* (variant: one try around the whole loop, the first exception ends it)
RECURSIVE NotifyCallbacks_StopAtRaise(_, _, _, _)
NotifyCallbacks_StopAtRaise(log, cbs, i, alert) ==
    IF i > Len(cbs) THEN log
    ELSE LET called == Append(log, Call(cbs[i].name, alert))
         IN  IF cbs[i].raises THEN called
             ELSE NotifyCallbacks_StopAtRaise(called, cbs, i + 1, alert)

\* for callback in self.callbacks: callback(alert), an Exception it raises is
\* caught and printed; the value is the record of the calls
RECURSIVE NotifyCallbacks(_, _, _, _)
NotifyCallbacks(log, cbs, i, alert) ==
    IF i > Len(cbs) THEN log
    ELSE LET called == Append(log, Call(cbs[i].name, alert))
         IN  IF cbs[i].raises
             THEN NotifyCallbacks(called, cbs, i + 1, alert)   \* except Exception
             ELSE NotifyCallbacks(called, cbs, i + 1, alert)

\* if self.db_save: self.db_save(alert.to_dict()), an Exception caught likewise
SaveToDatabase(log, save, alert) ==
    IF save = None THEN log
    ELSE Append(log, Call(save[1].name, to_dict(alert)))

\* a holds the keyword arguments of the call
create_alert(m, a, t) ==
    LET gen   == generate_alert_id(m, t)
        alert == NewAlert(gen.value, a, t)
        m1    == [gen.m EXCEPT
                     !.active_alerts = Append(@, alert),
                     !.alert_history = DequeAppend(@, alert, history_maxlen)]
        m2    == cleanup_alerts(m1, t)
        m3    == [m2 EXCEPT !.calls = NotifyCallbacks(@, m2.callbacks, 1, alert)]
        m4    == [m3 EXCEPT !.calls = SaveToDatabase(@, m3.db_save, alert)]
    IN  Result(m4, alert)

----------------------------------------------------------------------------
(* AlertManager._check_threshold *)

ThresholdSeverity(category) ==
    CASE category = "unhealthy_sensitive" -> "warning"
      [] category = "unhealthy"           -> "critical"
      [] category = "very_unhealthy"      -> "critical"
      [] category = "hazardous"           -> "emergency"
      [] OTHER                            -> "info"

ThresholdTitle(category) ==
    CASE category = "unhealthy_sensitive" -> <<"Unhealthy for Sensitive Groups">>
      [] category = "unhealthy"           -> <<"Unhealthy Air Quality">>
      [] category = "very_unhealthy"      -> <<"Very Unhealthy Air Quality">>
      [] category = "hazardous"           -> <<"HAZARDOUS Air Quality">>
      [] OTHER                            -> <<"Air Quality Alert">>

ThresholdMessage(category, aqi) ==
    CASE category = "unhealthy_sensitive" -> <<"Air quality is unhealthy for sensitive groups.">>
      [] category = "unhealthy"           -> <<"Air quality is unhealthy.">>
      [] category = "very_unhealthy"      -> <<"Air quality is very unhealthy.">>
      [] category = "hazardous"           -> <<"HAZARDOUS air quality!">>
      [] OTHER                            -> <<"AQI is", aqi>>

\* f"threshold_{category}"
ThresholdKey(category) == <<"threshold", category>>

\* the keyword arguments _check_threshold gives _create_alert
ThresholdAlertArgs(category, aqi, reading_id) ==
    [alert_type      |-> "threshold",
     severity        |-> ThresholdSeverity(category),
     title           |-> ThresholdTitle(category),
     message         |-> ThresholdMessage(category, aqi),
     reading_id      |-> reading_id,
     aqi_value       |-> Some(aqi),
     auto_dismiss    |-> FALSE,
     expires_minutes |-> None,
     metadata        |-> [category |-> category]]

\* (variant: the cooldown is asked for before the category is looked at)
check_threshold_CooldownFirst(m, aqi, reading_id, t) ==
    LET category == get_aqi_category(aqi)[1]
        allow    == can_send_alert(m, ThresholdKey(category), t)
    IN  IF ~allow.value THEN Result(allow.m, None)
        ELSE IF category \in {"good", "moderate"} THEN Result(allow.m, None)
        ELSE LET made == create_alert(allow.m,
                                      ThresholdAlertArgs(category, aqi, reading_id), t)
             IN  Result(made.m, Some(made.value))

\* the value is None or Some(alert)
check_threshold(m, aqi, reading_id, t) ==
    LET category == get_aqi_category(aqi)[1]
        allow    == can_send_alert(m, ThresholdKey(category), t)
    IN  IF category \in {"good", "moderate"} THEN Result(m, None)
        ELSE IF ~allow.value THEN Result(allow.m, None)
        ELSE LET made == create_alert(allow.m,
                                      ThresholdAlertArgs(category, aqi, reading_id), t)
             IN  Result(made.m, Some(made.value))

----------------------------------------------------------------------------
(* AlertManager._check_anomaly *)

\* [r.get('aqi', 0) for r in readings]
AqiValues(readings) == [i \in 1..Len(readings) |-> Get(readings[i], "aqi", 0)]

Squares(s) == [i \in 1..Len(s) |-> s[i] * s[i]]

\* statistics.stdev(base) ** 2 times n*(n-1), an integer: n*sum(x^2) - sum(x)^2
ScaledVariance(base) == Len(base) * Sum(Squares(base)) - Sum(base) * Sum(base)

\* abs(current - mean(base)) / stdev(base) > threshold, for stdev(base) > 0, with
\* both sides squared and multiplied by n^2 * n * (n-1)
ZScoreAbove(current, base, threshold) ==
    LET n == Len(base)
        d == n * current - Sum(base)
    IN  (n - 1) * d * d > threshold * threshold * n * ScaledVariance(base)

\* (variant: the current reading is part of its own baseline)
check_anomaly_BaselineWithCurrent(m, t) ==
    IF Len(m.reading_buffer) < anomaly_window_size THEN Result(m, None)
    ELSE
    LET aqi_values == AqiValues(Last(m.reading_buffer, anomaly_window_size))
        base       == aqi_values
        current    == aqi_values[Len(aqi_values)]
        \* stdev is 10 for a window of at most 2 values, else statistics.stdev
        stdev_pos  == IF Len(aqi_values) > 2 THEN ScaledVariance(base) > 0 ELSE TRUE
        anomalous  == IF Len(aqi_values) > 2
                      THEN ZScoreAbove(current, base, anomaly_std_threshold)
                      ELSE Abs(current - base[1]) > anomaly_std_threshold * 10
        allow      == can_send_alert(m, <<"anomaly">>, t)
        direction  == IF Len(base) * current > Sum(base) THEN "spike" ELSE "drop"
    IN  IF Len(aqi_values) < 3 THEN Result(m, None)
        ELSE IF ~(stdev_pos /\ anomalous) THEN Result(m, None)
        ELSE IF ~allow.value THEN Result(allow.m, None)
        ELSE LET made == create_alert(allow.m,
                            [alert_type      |-> "anomaly",
                             severity        |-> "warning",
                             title           |-> <<"Unusual AQI", direction>>,
                             message         |-> <<"AQI changed", direction, current>>,
                             reading_id      |-> None,
                             aqi_value       |-> Some(current),
                             auto_dismiss    |-> TRUE,
                             expires_minutes |-> Some(30),
                             metadata        |-> [mean_sum  |-> Sum(base),
                                                  variance  |-> ScaledVariance(base),
                                                  direction |-> direction]], t)
             IN  Result(made.m, Some(made.value))

\* (variant: the size of the window is not asked for, three readings are enough)
check_anomaly_NoWindow(m, t) ==
    IF Len(m.reading_buffer) < 3 THEN Result(m, None)
    ELSE
    LET aqi_values == AqiValues(Last(m.reading_buffer, anomaly_window_size))
        base       == SubSeq(aqi_values, 1, Len(aqi_values) - 1)
        current    == aqi_values[Len(aqi_values)]
        \* stdev is 10 for a window of at most 2 values, else statistics.stdev
        stdev_pos  == IF Len(aqi_values) > 2 THEN ScaledVariance(base) > 0 ELSE TRUE
        anomalous  == IF Len(aqi_values) > 2
                      THEN ZScoreAbove(current, base, anomaly_std_threshold)
                      ELSE Abs(current - base[1]) > anomaly_std_threshold * 10
        allow      == can_send_alert(m, <<"anomaly">>, t)
        direction  == IF Len(base) * current > Sum(base) THEN "spike" ELSE "drop"
    IN  IF Len(aqi_values) < 3 THEN Result(m, None)
        ELSE IF ~(stdev_pos /\ anomalous) THEN Result(m, None)
        ELSE IF ~allow.value THEN Result(allow.m, None)
        ELSE LET made == create_alert(allow.m,
                            [alert_type      |-> "anomaly",
                             severity        |-> "warning",
                             title           |-> <<"Unusual AQI", direction>>,
                             message         |-> <<"AQI changed", direction, current>>,
                             reading_id      |-> None,
                             aqi_value       |-> Some(current),
                             auto_dismiss    |-> TRUE,
                             expires_minutes |-> Some(30),
                             metadata        |-> [mean_sum  |-> Sum(base),
                                                  variance  |-> ScaledVariance(base),
                                                  direction |-> direction]], t)
             IN  Result(made.m, Some(made.value))

check_anomaly(m, t) ==
    IF Len(m.reading_buffer) < anomaly_window_size THEN Result(m, None)
    ELSE
    LET aqi_values == AqiValues(Last(m.reading_buffer, anomaly_window_size))
        base       == SubSeq(aqi_values, 1, Len(aqi_values) - 1)
        current    == aqi_values[Len(aqi_values)]
        \* stdev is 10 for a window of at most 2 values, else statistics.stdev
        stdev_pos  == IF Len(aqi_values) > 2 THEN ScaledVariance(base) > 0 ELSE TRUE
        anomalous  == IF Len(aqi_values) > 2
                      THEN ZScoreAbove(current, base, anomaly_std_threshold)
                      ELSE Abs(current - base[1]) > anomaly_std_threshold * 10
        allow      == can_send_alert(m, <<"anomaly">>, t)
        direction  == IF Len(base) * current > Sum(base) THEN "spike" ELSE "drop"
    IN  IF Len(aqi_values) < 3 THEN Result(m, None)
        ELSE IF ~(stdev_pos /\ anomalous) THEN Result(m, None)
        ELSE IF ~allow.value THEN Result(allow.m, None)
        ELSE LET made == create_alert(allow.m,
                            [alert_type      |-> "anomaly",
                             severity        |-> "warning",
                             title           |-> <<"Unusual AQI", direction>>,
                             message         |-> <<"AQI changed", direction, current>>,
                             reading_id      |-> None,
                             aqi_value       |-> Some(current),
                             auto_dismiss    |-> TRUE,
                             expires_minutes |-> Some(30),
                             metadata        |-> [mean_sum  |-> Sum(base),
                                                  variance  |-> ScaledVariance(base),
                                                  direction |-> direction]], t)
             IN  Result(made.m, Some(made.value))

----------------------------------------------------------------------------
(* AlertManager._check_trend *)

\* The older means k (1 to 384, both means within the AQI scale 0..500) for
\* which the double-precision evaluation of
\*     (second_half - first_half) / first_half * 100
\* with first_half = k and second_half = 1.3 * k, an increase of exactly 30%,
\* rounds to 30.000000000000004 and not to 30.0
RoundsAbove30 ==
    {1, 2, 4, 8, 11, 16, 17, 21, 22, 27, 29, 32, 34, 37, 39, 42, 44,
     47, 49, 53, 54, 58, 59, 63, 64, 68, 69, 73, 74, 78, 79, 83, 84,
     88, 89, 93, 94, 98, 101, 103, 106, 108, 111, 113, 116, 118, 121,
     123, 126, 128, 131, 133, 136, 138, 141, 143, 146, 148, 151, 153,
     156, 158, 161, 163, 166, 168, 171, 173, 176, 178, 181, 183, 186,
     188, 191, 193, 196, 197, 201, 202, 206, 207, 211, 212, 216, 217,
     221, 222, 226, 227, 231, 232, 236, 237, 241, 242, 246, 247, 251,
     252, 256, 257, 261, 262, 266, 267, 271, 272, 276, 277, 281, 282,
     286, 287, 291, 292, 296, 297, 301, 302, 306, 307, 311, 312, 316,
     317, 321, 322, 326, 327, 331, 332, 336, 337, 341, 342, 346, 347,
     351, 352, 356, 357, 361, 362, 366, 367, 371, 372, 376, 377, 381,
     382}

\* change_pct > 30 for first_half = first_sum / 10 > 0 and second_half =
\* second_sum / 10, in doubles: off an increase of exactly 30% the rounding
\* error (about 1e-14) is far below the distance to 30 (at least 1/first_sum)
ChangePctAbove30(first_sum, second_sum) ==
    IF (second_sum - first_sum) * 100 = 30 * first_sum
    THEN (first_sum \div 10) \in RoundsAbove30
    ELSE (second_sum - first_sum) * 100 > 30 * first_sum

check_trend(m, t) ==
    IF Len(m.reading_buffer) < 20 THEN Result(m, None)
    ELSE
    LET recent      == AqiValues(Last(m.reading_buffer, 20))
        first_sum   == Sum(SubSeq(recent, 1, 10))     \* first_half * 10
        second_sum  == Sum(SubSeq(recent, 11, 20))    \* second_half * 10
        \* change_pct > 30, with change_pct 0 unless first_half > 0
        worsening   == first_sum > 0 /\ ChangePctAbove30(first_sum, second_sum)
        allow       == can_send_alert(m, <<"trend_worsening">>, t)
    IN  IF ~worsening THEN Result(m, None)
        ELSE IF ~allow.value THEN Result(allow.m, None)
        ELSE LET made == create_alert(allow.m,
                            [alert_type      |-> "trend",
                             severity        |-> "warning",
                             title           |-> <<"Air Quality Worsening">>,
                             message         |-> <<"AQI has increased">>,
                             reading_id      |-> None,
                             aqi_value       |-> Some(second_sum \div 10),
                             auto_dismiss    |-> TRUE,
                             expires_minutes |-> Some(60),
                             metadata        |-> [from_sum |-> first_sum,
                                                  to_sum   |-> second_sum]], t)
             IN  Result(made.m, Some(made.value))

----------------------------------------------------------------------------
(* AlertManager.process_reading *)

\* (variant: the reading is stored after the evaluators have run)
process_reading_PushLast(m, reading, t) ==
    LET aqi       == Get(reading, "aqi", 0)
        reading_id == IF "id" \in DOMAIN reading THEN Some(reading.id) ELSE None
        threshold == check_threshold(m, aqi, reading_id, t)
        anomaly   == check_anomaly(threshold.m, t)
        trend     == check_trend(anomaly.m, t)
        m1        == [trend.m EXCEPT !.reading_buffer =
                                   DequeAppend(@, reading, reading_buffer_maxlen)]
    IN  Result(m1, threshold.value \o anomaly.value \o trend.value)

\* the value is the list new_alerts
process_reading(m, reading, t) ==
    LET m0        == [m EXCEPT !.reading_buffer =
                                   DequeAppend(@, reading, reading_buffer_maxlen)]
        aqi       == Get(reading, "aqi", 0)
        reading_id == IF "id" \in DOMAIN reading THEN Some(reading.id) ELSE None
        threshold == check_threshold(m0, aqi, reading_id, t)
        anomaly   == check_anomaly(threshold.m, t)
        trend     == check_trend(anomaly.m, t)
    IN  Result(trend.m, threshold.value \o anomaly.value \o trend.value)

----------------------------------------------------------------------------
(* AlertManager.process_forecast *)

\* f"predictive_{int(aqi / 50) * 50}"
PredictiveKey(aqi) == <<"predictive", (aqi \div 50) * 50>>

\* int(hours_ahead * 60), hours_ahead in tenths of an hour
ExpiresMinutes(hours_ahead) == hours_ahead * 6

\* the alert process_forecast makes of a prediction
PredictiveAlertArgs(pred, hours_ahead, aqi) ==
    [alert_type      |-> "predictive",
     severity        |-> IF aqi > 200 THEN "critical" ELSE "warning",
     title           |-> <<"AQI Expected to Reach", aqi>>,
     message         |-> <<"Air quality forecast predicts AQI", aqi, hours_ahead>>,
     reading_id      |-> None,
     aqi_value       |-> Some(aqi),
     auto_dismiss    |-> TRUE,
     expires_minutes |-> Some(ExpiresMinutes(hours_ahead)),
     metadata        |-> [hours_ahead |-> hours_ahead,
                          timestamp   |-> Get(pred, "timestamp", None)]]

\* (variant: the loop ends at the first prediction in range, allowed or not)
RECURSIVE ForecastLoop_StopAtFirst(_, _, _, _)
ForecastLoop_StopAtFirst(m, predictions, i, t) ==
    IF i > Len(predictions) THEN Result(m, <<>>)
    ELSE
    LET pred        == predictions[i]
        hours_ahead == Get(pred, "hours_ahead", 0)
        aqi         == Get(pred, "aqi", 0)
        allow       == can_send_alert(m, PredictiveKey(aqi), t)
    IN  IF ~(hours_ahead <= predictive_lead_time_hours * 10 /\ aqi > 150)
        THEN ForecastLoop_StopAtFirst(m, predictions, i + 1, t)
        ELSE IF ~allow.value THEN Result(allow.m, <<>>)
        ELSE LET made == create_alert(allow.m,
                                      PredictiveAlertArgs(pred, hours_ahead, aqi), t)
             IN  Result(made.m, <<made.value>>)

\* (variant: the loop goes on after it has made an alert)
RECURSIVE ForecastLoop_NoBreak(_, _, _, _)
ForecastLoop_NoBreak(m, predictions, i, t) ==
    IF i > Len(predictions) THEN Result(m, <<>>)
    ELSE
    LET pred        == predictions[i]
        hours_ahead == Get(pred, "hours_ahead", 0)
        aqi         == Get(pred, "aqi", 0)
        allow       == can_send_alert(m, PredictiveKey(aqi), t)
    IN  IF ~(hours_ahead <= predictive_lead_time_hours * 10 /\ aqi > 150)
        THEN ForecastLoop_NoBreak(m, predictions, i + 1, t)
        ELSE IF ~allow.value THEN ForecastLoop_NoBreak(allow.m, predictions, i + 1, t)
        ELSE LET made == create_alert(allow.m,
                                      PredictiveAlertArgs(pred, hours_ahead, aqi), t)
                 rest == ForecastLoop_NoBreak(made.m, predictions, i + 1, t)
             IN  Result(rest.m, <<made.value>> \o rest.value)

\* the loop over the predictions, from the i-th on; the value is new_alerts
RECURSIVE ForecastLoop(_, _, _, _)
ForecastLoop(m, predictions, i, t) ==
    IF i > Len(predictions) THEN Result(m, <<>>)
    ELSE
    LET pred        == predictions[i]
        hours_ahead == Get(pred, "hours_ahead", 0)
        aqi         == Get(pred, "aqi", 0)
        allow       == can_send_alert(m, PredictiveKey(aqi), t)
    IN  IF ~(hours_ahead <= predictive_lead_time_hours * 10 /\ aqi > 150)
        THEN ForecastLoop(m, predictions, i + 1, t)
        ELSE IF ~allow.value THEN ForecastLoop(allow.m, predictions, i + 1, t)
        ELSE LET made == create_alert(allow.m,
                                      PredictiveAlertArgs(pred, hours_ahead, aqi), t)
             IN  Result(made.m, <<made.value>>)

\* forecast is None, or a dict that may hold the list 'forecast'
process_forecast(m, forecast, t) ==
    IF DOMAIN forecast = {} \/ "forecast" \notin DOMAIN forecast THEN Result(m, <<>>)
    ELSE ForecastLoop(m, forecast.forecast, 1, t)

----------------------------------------------------------------------------
(* The API of the manager *)

\* the keyword arguments create_system_alert gives _create_alert
SystemAlertArgs(title, message, severity) ==
    [alert_type      |-> "system",
     severity        |-> severity,
     title           |-> title,
     message         |-> message,
     reading_id      |-> None,
     aqi_value       |-> None,
     auto_dismiss    |-> TRUE,
     expires_minutes |-> Some(60),
     metadata        |-> [k \in {} |-> 0]]

create_system_alert(m, title, message, severity, t) ==
    create_alert(m, SystemAlertArgs(title, message, severity), t)

\* index of the first alert with that id, 0 if there is none
FirstWithId(alerts, alert_id) ==
    LET hits == {i \in 1..Len(alerts) : alerts[i].id = alert_id}
    IN  IF hits = {} THEN 0 ELSE CHOOSE i \in hits : \A j \in hits : i <= j

\* (variant: an acknowledged alert is left to the aging, its expiry is cleared)
acknowledge_alert_ClearsExpiry(m, alert_id) ==
    LET i == FirstWithId(m.active_alerts, alert_id)
        h == FirstWithId(m.alert_history, alert_id)
        Done(x) == [x EXCEPT !.acknowledged = TRUE, !.expires_at = None]
    IN  IF i = 0 THEN Result(m, FALSE)
        ELSE Result([m EXCEPT
                        !.active_alerts[i] = Done(@),
                        !.alert_history = IF h = 0 THEN @
                                          ELSE [@ EXCEPT ![h] = Done(@)]],
                    TRUE)

\* (variant: the alert is looked up in the history)
acknowledge_alert_InHistory(m, alert_id) ==
    LET i == FirstWithId(m.active_alerts, alert_id)
        h == FirstWithId(m.alert_history, alert_id)
    IN  IF h = 0 THEN Result(m, FALSE)
        ELSE Result([m EXCEPT
                        !.alert_history[h].acknowledged = TRUE,
                        !.active_alerts = IF i = 0 THEN @
                                          ELSE [@ EXCEPT ![i].acknowledged = TRUE]],
                    TRUE)

\* The alert object is shared by the active list and the history: setting its
\* flag shows in both.
acknowledge_alert(m, alert_id) ==
    LET i == FirstWithId(m.active_alerts, alert_id)
        h == FirstWithId(m.alert_history, alert_id)
    IN  IF i = 0 THEN Result(m, FALSE)
        ELSE Result([m EXCEPT
                        !.active_alerts[i].acknowledged = TRUE,
                        !.alert_history = IF h = 0 THEN @
                                          ELSE [@ EXCEPT ![h].acknowledged = TRUE]],
                    TRUE)

\* (variant: the ids are compared on their time stamp alone)
WithoutId_ByStamp(alerts, alert_id) ==
    LET Keep(a) == a.id[2] # alert_id[2]
    IN  SelectSeq(alerts, Keep)

WithoutId(alerts, alert_id) ==
    LET Keep(a) == a.id # alert_id
    IN  SelectSeq(alerts, Keep)

dismiss_alert(m, alert_id) ==
    Result([m EXCEPT !.active_alerts = WithoutId(@, alert_id)], TRUE)

Unacknowledged(alerts) ==
    LET Keep(a) == ~a.acknowledged
    IN  SelectSeq(alerts, Keep)

get_active_alerts(m, t) ==
    LET m1 == cleanup_alerts(m, t)
    IN  Result(m1, Unacknowledged(m1.active_alerts))

get_all_alerts(m, include_acknowledged, t) ==
    LET m1 == cleanup_alerts(m, t)
    IN  Result(m1, IF include_acknowledged THEN m1.active_alerts
                   ELSE Unacknowledged(m1.active_alerts))

CountSeverity(alerts, severity) ==
    Cardinality({i \in 1..Len(alerts) :
                    ~alerts[i].acknowledged /\ alerts[i].severity = severity})

get_alert_counts(m) ==
    Result(m, [total     |-> Len(Unacknowledged(m.active_alerts)),
               info      |-> CountSeverity(m.active_alerts, "info"),
               warning   |-> CountSeverity(m.active_alerts, "warning"),
               critical  |-> CountSeverity(m.active_alerts, "critical"),
               emergency |-> CountSeverity(m.active_alerts, "emergency")])

\* (variant: the counter of the ids is reset with the rest)
clear_all_ResetCounter(m) ==
    Result([m EXCEPT !.active_alerts = <<>>,
                     !.last_alert_times = [k \in {} |-> 0],
                     !.alert_counter = 0], None)

register_callback(m, callback) ==
    Result([m EXCEPT !.callbacks = Append(@, callback)], None)

clear_all(m) ==
    Result([m EXCEPT !.active_alerts = <<>>,
                     !.last_alert_times = [k \in {} |-> 0]], None)

----------------------------------------------------------------------------
(* The state machine: one action per operation, run to completion by one thread *)

Threads == {"reader", "request"}

Idle == [th \in Threads |-> "idle"]
NoFrames == [th \in Threads |-> [k \in {} |-> 0]]

Init ==
    /\ now = 0
    /\ active_alerts = NewManager.active_alerts
    /\ alert_history = NewManager.alert_history
    /\ reading_buffer = NewManager.reading_buffer
    /\ last_alert_times = NewManager.last_alert_times
    /\ alert_counter = NewManager.alert_counter
    /\ callbacks = NewManager.callbacks
    /\ db_save = NewManager.db_save
    /\ calls = NewManager.calls
    /\ reading_seq = 0
    /\ ret = [op |-> "init"]
    /\ pc = Idle
    /\ frame = NoFrames

\* the manager's fields after a call
Becomes(m) ==
    /\ active_alerts' = m.active_alerts
    /\ alert_history' = m.alert_history
    /\ reading_buffer' = m.reading_buffer
    /\ last_alert_times' = m.last_alert_times
    /\ alert_counter' = m.alert_counter
    /\ callbacks' = m.callbacks
    /\ db_save' = m.db_save
    /\ calls' = m.calls

\* the clock advances between operations
Tick(d) ==
    /\ now' = now + d
    /\ ret' = [op |-> "tick"]
    /\ UNCHANGED <<mgr_vars, reading_seq, pc, frame>>

\* app.process_reading: the reading is saved, gets its id and goes to the manager
ProcessReading(data) ==
    LET reading_id == reading_seq + 1
        reading == [f \in DOMAIN data \cup {"id"} |->
                       IF f = "id" THEN reading_id ELSE data[f]]
        r == process_reading(Manager, reading, now)
    IN  /\ Becomes(r.m)
        /\ reading_seq' = reading_id
        /\ ret' = [op |-> "process_reading", reading |-> reading, value |-> r.value]
        /\ UNCHANGED <<now, pc, frame>>

ProcessForecast(forecast) ==
    LET r == process_forecast(Manager, forecast, now)
    IN  /\ Becomes(r.m)
        /\ ret' = [op |-> "process_forecast", forecast |-> forecast, value |-> r.value]
        /\ UNCHANGED <<now, reading_seq, pc, frame>>

\* app.api_alerts_test
CreateSystemAlert(severity) ==
    LET r == create_system_alert(Manager, <<"Test Alert">>,
                                 <<"This is a test alert">>, severity, now)
    IN  /\ Becomes(r.m)
        /\ ret' = [op |-> "create_system_alert", value |-> r.value]
        /\ UNCHANGED <<now, reading_seq, pc, frame>>

AcknowledgeAlert(alert_id) ==
    LET r == acknowledge_alert(Manager, alert_id)
    IN  /\ Becomes(r.m)
        /\ ret' = [op |-> "acknowledge_alert", alert_id |-> alert_id, value |-> r.value]
        /\ UNCHANGED <<now, reading_seq, pc, frame>>

DismissAlert(alert_id) ==
    LET r == dismiss_alert(Manager, alert_id)
    IN  /\ Becomes(r.m)
        /\ ret' = [op |-> "dismiss_alert", alert_id |-> alert_id, value |-> r.value]
        /\ UNCHANGED <<now, reading_seq, pc, frame>>

GetActiveAlerts ==
    LET r == get_active_alerts(Manager, now)
    IN  /\ Becomes(r.m)
        /\ ret' = [op |-> "get_active_alerts", value |-> r.value]
        /\ UNCHANGED <<now, reading_seq, pc, frame>>

GetAllAlerts(include_acknowledged) ==
    LET r == get_all_alerts(Manager, include_acknowledged, now)
    IN  /\ Becomes(r.m)
        /\ ret' = [op |-> "get_all_alerts",
                   include_acknowledged |-> include_acknowledged, value |-> r.value]
        /\ UNCHANGED <<now, reading_seq, pc, frame>>

GetAlertCounts ==
    LET r == get_alert_counts(Manager)
    IN  /\ Becomes(r.m)
        /\ ret' = [op |-> "get_alert_counts", value |-> r.value]
        /\ UNCHANGED <<now, reading_seq, pc, frame>>

RegisterCallback(callback) ==
    LET r == register_callback(Manager, callback)
    IN  /\ Becomes(r.m)
        /\ ret' = [op |-> "register_callback"]
        /\ UNCHANGED <<now, reading_seq, pc, frame>>

ClearAll ==
    LET r == clear_all(Manager)
    IN  /\ Becomes(r.m)
        /\ ret' = [op |-> "clear_all"]
        /\ UNCHANGED <<now, reading_seq, pc, frame>>

----------------------------------------------------------------------------
(* Inputs *)

\* ids a client may name: those of the alerts it is shown, and one never handed out
KnownIds == {active_alerts[i].id : i \in 1..Len(active_alerts)}
UnknownId == FormatAlertId(0, 0)

Point(hours_ahead, aqi) ==
    [hours_ahead |-> hours_ahead, aqi |-> aqi, timestamp |-> hours_ahead]

ReadingData == {[aqi |-> 80], [aqi |-> 160]}

SystemSeverities == {"info"}

Forecasts == {
    [success |-> FALSE],
    [forecast |-> <<Point(1, 180)>>] }

----------------------------------------------------------------------------
(* Spec: every operation but clear_all, in any order *)

Next ==
    \/ \E d \in TickSteps : now + d <= MaxTime /\ Tick(d)
    \/ /\ reading_seq < MaxReadings
       /\ alert_counter < MaxAlerts
       /\ \E data \in ReadingData : ProcessReading(data)
    \/ /\ alert_counter < MaxAlerts
       /\ \E f \in Forecasts : ProcessForecast(f)
    \/ /\ alert_counter < MaxAlerts
       /\ \E sev \in SystemSeverities : CreateSystemAlert(sev)
    \/ \E id \in KnownIds \cup {UnknownId} : AcknowledgeAlert(id)
    \/ \E id \in KnownIds \cup {UnknownId} : DismissAlert(id)
    \/ GetActiveAlerts
    \/ \E inc \in BOOLEAN : GetAllAlerts(inc)
    \/ GetAlertCounts

Spec == Init /\ [][Next]_vars

----------------------------------------------------------------------------
(* SpecCooldown: the cooldown check on its own, minute by minute *)

MaxCooldownTime == 17

CooldownKeys == {ThresholdKey("unhealthy"), <<"anomaly">>}

CanSendAlert(key) ==
    LET r == can_send_alert(Manager, key, now)
    IN  /\ Becomes(r.m)
        /\ ret' = [op |-> "can_send_alert", key |-> key, value |-> r.value]
        /\ UNCHANGED <<now, reading_seq, pc, frame>>

NextCooldown ==
    \/ \E d \in {1, 14} : now + d <= MaxCooldownTime /\ Tick(d)
    \/ \E key \in CooldownKeys : CanSendAlert(key)

SpecCooldown == Init /\ [][NextCooldown]_vars

----------------------------------------------------------------------------
(* Claims *)

IsThreshold(a) == a.type = "threshold"

ThresholdAlerts(alerts) == {i \in 1..Len(alerts) : IsThreshold(alerts[i])}

\* the band of an AQI value, from the EPA table
Band(aqi) ==
    IF aqi > 300 THEN "hazardous"
    ELSE IF aqi > 200 THEN "very_unhealthy"
    ELSE IF aqi > 150 THEN "unhealthy"
    ELSE IF aqi > 100 THEN "unhealthy_sensitive"
    ELSE IF aqi > 50 THEN "moderate"
    ELSE "good"

\* C1: two Threshold alerts of the same band are created at least 15 minutes
\* apart, and a reading whose band had a Threshold alert less than 15 minutes
\* ago returns no Threshold alert.
C1_ThresholdCooldown ==
    /\ \A i, j \in ThresholdAlerts(alert_history) :
          (i < j /\ alert_history[i].metadata.category = alert_history[j].metadata.category)
          => fromisoformat(alert_history[j].timestamp)
               - fromisoformat(alert_history[i].timestamp) >= 15
    /\ (ret.op = "process_reading" /\
        \E i \in ThresholdAlerts(alert_history) :
           /\ alert_history[i].metadata.category = Band(ret.reading.aqi)
           /\ alert_history[i].reading_id # Some(ret.reading.id)
           /\ now - fromisoformat(alert_history[i].timestamp) < 15)
       => ThresholdAlerts(ret.value) = {}

\* a second reading of the band, 10 minutes after the band's alert, returned nothing
C1_Witness_Blocked ==
    /\ ret.op = "process_reading"
    /\ ret.reading.aqi = 160
    /\ ret.value = <<>>
    /\ \E i \in ThresholdAlerts(alert_history) :
          /\ alert_history[i].metadata.category = "unhealthy"
          /\ now - fromisoformat(alert_history[i].timestamp) = 10

\* C3 (as claimed): the check allows exactly when the key has no record or more
\* than 15 minutes have passed since its record.
C3_Original_StrictlyMore ==
    [][\A key \in CooldownKeys :
          CanSendAlert(key) =>
             (ret'.value <=> (key \notin DOMAIN last_alert_times
                              \/ now - last_alert_times[key] > 15))]_vars

\* C3 (amended): the check allows, and records now for the key alone, exactly
\* when the key has no record or at least 15 minutes have passed since its
\* record; otherwise it refuses and leaves the map unchanged. Records of other
\* keys play no part.
C3_CooldownAtLeast ==
    [][\A key \in CooldownKeys :
          CanSendAlert(key) =>
             LET allowed == key \notin DOMAIN last_alert_times
                            \/ now - last_alert_times[key] >= 15
             IN  /\ ret'.value <=> allowed
                 /\ allowed =>
                       /\ DOMAIN last_alert_times' = DOMAIN last_alert_times \cup {key}
                       /\ last_alert_times'[key] = now
                       /\ \A k \in DOMAIN last_alert_times \ {key} :
                             last_alert_times'[k] = last_alert_times[k]
                 /\ ~allowed => last_alert_times' = last_alert_times]_vars

\* the check refused a key 14 minutes after its record while the other key,
\* recorded earlier, was out of its cooldown
C3_Witness ==
    /\ ret.op = "can_send_alert"
    /\ ret.value = FALSE
    /\ now - last_alert_times[ret.key] = 14
    /\ \E k \in DOMAIN last_alert_times : k # ret.key /\ now - last_alert_times[k] >= 15

----------------------------------------------------------------------------
(* SpecThreshold: readings over the whole AQI range on a new manager, then
   readings at the edges of the bands *)

MaxAqi == 505
MaxThresholdReadings == 2

BandEdges == {0, 50, 51, 100, 101, 150, 151, 200, 201, 300, 301, 500, 501}

NextThreshold ==
    /\ reading_seq < MaxThresholdReadings
    /\ \E aqi \in (IF reading_seq = 0 THEN 0..MaxAqi ELSE BandEdges) :
          ProcessReading([aqi |-> aqi])

SpecThreshold == Init /\ [][NextThreshold]_vars

\* C2: a reading with AQI 0..100 returns no Threshold alert in any state; on a
\* manager with no cooldown recorded a reading returns a Threshold alert exactly
\* when its AQI is 101 or more, Warning for 101..150, Critical for 151..300,
\* Emergency from 301 on (above 500 included).
C2_ThresholdBands ==
    ret.op = "process_reading" =>
       LET aqi == ret.reading.aqi
           got == ThresholdAlerts(ret.value)
       IN  /\ Cardinality(got) <= 1
           /\ aqi <= 100 => got = {}
           /\ reading_seq = 1 => (aqi >= 101 <=> got # {})
           /\ \A i \in got :
                 /\ ret.value[i].aqi_value = Some(aqi)
                 /\ ret.value[i].severity =
                       (IF aqi <= 150 THEN "warning"
                        ELSE IF aqi <= 300 THEN "critical" ELSE "emergency")
                 /\ ret.value[i].auto_dismiss = FALSE

\* the first reading, with AQI 505, returned an Emergency alert
C2_Witness ==
    /\ ret.op = "process_reading"
    /\ reading_seq = 1
    /\ ret.reading.aqi = 505
    /\ ThresholdAlerts(ret.value) # {}
    /\ ret.value[1].severity = "emergency"

----------------------------------------------------------------------------
(* SpecAnomaly: a stream of readings that fills the anomaly window *)

MaxAnomalyReadings == 10

AnomalyAqis == {50, 80, 500}

NextAnomaly ==
    /\ reading_seq < MaxAnomalyReadings
    /\ \E aqi \in AnomalyAqis : ProcessReading([aqi |-> aqi])

SpecAnomaly == Init /\ [][NextAnomaly]_vars

IsAnomaly(a) == a.type = "anomaly"

AnomalyAlerts(alerts) == {i \in 1..Len(alerts) : IsAnomaly(alerts[i])}

\* the AQI values before the last one in the window of the last 10 readings
Baseline == [i \in 1..9 |-> reading_buffer[Len(reading_buffer) - 10 + i].aqi]

\* C4: when the 9 baseline values of the window are all equal, the spread 10
\* stands in for their zero deviation: the 10th reading returns an Anomaly
\* alert exactly when it is more than 30 away from them, a "spike" when above.
C4_ZeroDeviationFallback ==
    (/\ ret.op = "process_reading"
     /\ Len(reading_buffer) = 10
     /\ \A i \in 1..9 : Baseline[i] = Baseline[1])
    => LET current == ret.reading.aqi
           got == AnomalyAlerts(ret.value)
       IN  /\ (Abs(current - Baseline[1]) > 3 * 10) <=> got # {}
           /\ \A i \in got :
                 ret.value[i].metadata.direction =
                    (IF current > Baseline[1] THEN "spike" ELSE "drop")

----------------------------------------------------------------------------
(* SpecForecast: forecasts of up to two points, the clock, and the cleanup *)

MaxForecastTime == 60
MaxForecastAlerts == 2

\* predictions now, 1 h and 5 h ahead (hours_ahead 0, 10 and 50 tenths)
ForecastPoints ==
    {Point(0, 180), Point(0, 220),
     Point(10, 120), Point(10, 180), Point(10, 220),
     Point(50, 180)}

\* a dict without the list, an empty list, and lists in the order of hours_ahead
ForecastInputs ==
    {[success |-> FALSE], [forecast |-> <<>>]}
    \cup {[forecast |-> <<p>>] : p \in ForecastPoints}
    \cup UNION {{[forecast |-> <<p, q>>] :
                    q \in {x \in ForecastPoints : x.hours_ahead >= p.hours_ahead}} :
                 p \in ForecastPoints}

NextForecast ==
    \/ \E d \in {15, 60} : now + d <= MaxForecastTime /\ Tick(d)
    \/ /\ alert_counter < MaxForecastAlerts
       /\ \E f \in ForecastInputs : ProcessForecast(f)
    \/ GetAllAlerts(TRUE)

SpecForecast == Init /\ [][NextForecast]_vars

\* the predictions of a forecast, none when it has no list
Predictions(f) == IF "forecast" \in DOMAIN f THEN f.forecast ELSE <<>>

\* the predictions within the lead time that reach unhealthy air
InRange(preds) == {i \in 1..Len(preds) : preds[i].hours_ahead <= 20 /\ preds[i].aqi > 150}

Bucket(aqi) == CHOOSE b \in {50 * k : k \in 0..20} : b <= aqi /\ aqi < b + 50

\* the key of that AQI has a record younger than 15 minutes
Cooling(aqi) ==
    /\ <<"predictive", Bucket(aqi)>> \in DOMAIN last_alert_times
    /\ now - last_alert_times[<<"predictive", Bucket(aqi)>>] < 15

Least(S) == CHOOSE i \in S : \A j \in S : i <= j

\* C5 (as claimed): only the first prediction in range is evaluated; when its
\* bucket is in cooldown the call returns no alert.
C5_Original_FirstPointOnly ==
    [][ret'.op = "process_forecast" =>
          LET preds == Predictions(ret'.forecast)
          IN  (InRange(preds) # {} /\ Cooling(preds[Least(InRange(preds))].aqi))
              => ret'.value = <<>>]_vars

\* C5 (amended): the call makes its alert of the first prediction in range whose
\* bucket is not in cooldown; predictions in range whose bucket is in cooldown
\* are passed over, and the call returns no alert only when there is no
\* prediction in range with a bucket out of cooldown.
C5_FirstAllowedPoint ==
    [][ret'.op = "process_forecast" =>
          LET preds == Predictions(ret'.forecast)
              open  == {i \in InRange(preds) : ~Cooling(preds[i].aqi)}
          IN  IF open = {} THEN ret'.value = <<>>
              ELSE /\ Len(ret'.value) = 1
                   /\ ret'.value[1].aqi_value = Some(preds[Least(open)].aqi)
                   /\ ret'.value[1].metadata.hours_ahead = preds[Least(open)].hours_ahead]_vars

\* a forecast whose first prediction is in range returned the alert of its second
C5_Witness ==
    /\ ret.op = "process_forecast"
    /\ Len(Predictions(ret.forecast)) = 2
    /\ 1 \in InRange(Predictions(ret.forecast))
    /\ Len(ret.value) = 1
    /\ ret.value[1].aqi_value = Some(220)
    /\ ret.forecast.forecast[1].aqi = 180

\* C6: a call returns at most one alert, and none when no prediction within 2
\* hours is above 150; with no cooldown recorded a prediction in range yields
\* exactly one; the alert is Predictive, auto-dismissing, Critical when the
\* AQI it was made of is above 200 and Warning otherwise.
C6_ForecastResult ==
    [][ret'.op = "process_forecast" =>
          LET preds == Predictions(ret'.forecast)
              v == ret'.value
          IN  /\ Len(v) <= 1
              /\ InRange(preds) = {} => (v = <<>> /\ UNCHANGED mgr_vars)
              /\ (DOMAIN last_alert_times = {} /\ InRange(preds) # {}) => Len(v) = 1
              /\ \A i \in 1..Len(v) :
                    /\ v[i].type = "predictive"
                    /\ v[i].auto_dismiss = TRUE
                    /\ \E j \in InRange(preds) : v[i].aqi_value = Some(preds[j].aqi)
                    /\ v[i].severity = (IF v[i].aqi_value[1] > 200 THEN "critical"
                                        ELSE "warning")]_vars

\* the first call of a run, with the one prediction (1 h, 180), returned a Warning
C6_Witness ==
    /\ ret.op = "process_forecast"
    /\ ret.forecast = [forecast |-> <<Point(10, 180)>>]
    /\ alert_counter = 1
    /\ Len(ret.value) = 1
    /\ ret.value[1].severity = "warning"

IsPredictive(a) == a.type = "predictive"

\* C7: every Predictive alert expires hours_ahead * 60 minutes after it was
\* created, for every hours_ahead from 0 to 2, and is gone from the active
\* list once a cleanup has run at or after that time.
C7_PredictiveExpiry ==
    /\ \A i \in 1..Len(alert_history) :
          IsPredictive(alert_history[i]) =>
             /\ alert_history[i].expires_at # None
             /\ fromisoformat(alert_history[i].expires_at) =
                   fromisoformat(alert_history[i].timestamp)
                      + 6 * alert_history[i].metadata.hours_ahead
    /\ ret.op = "get_all_alerts" =>
          \A i \in 1..Len(active_alerts) :
             IsPredictive(active_alerts[i]) =>
                now < fromisoformat(active_alerts[i].timestamp)
                         + 6 * active_alerts[i].metadata.hours_ahead

----------------------------------------------------------------------------
(* SpecCap: more alerts in a row than the active list may hold *)

MaxBurst == 60

NextCap ==
    \/ /\ alert_counter < MaxBurst
       /\ CreateSystemAlert("info")
    \/ GetActiveAlerts
    \/ \E inc \in BOOLEAN : GetAllAlerts(inc)
    \/ GetAlertCounts

SpecCap == Init /\ [][NextCap]_vars

\* the number a creation gave the alert, the last part of its id
Serial(a) == a.id[3]

\* C8: the active list never holds more than 50 alerts, and what a creation
\* beyond 50 evicts is the oldest: the list is always the last min(n, 50) of
\* the n alerts created, in the order of their creation.
C8_ActiveCap ==
    /\ Len(active_alerts) <= 50
    /\ Len(active_alerts) = (IF alert_counter < 50 THEN alert_counter ELSE 50)
    /\ \A k \in 1..Len(active_alerts) :
          Serial(active_alerts[k]) = alert_counter - Len(active_alerts) + k

\* 60 alerts were created and the list holds the 11th to the 60th
C8_Witness ==
    /\ alert_counter = 60
    /\ Len(active_alerts) = 50
    /\ Serial(active_alerts[1]) = 11
    /\ Serial(active_alerts[50]) = 60

----------------------------------------------------------------------------
(* SpecConc: the reader thread (app.serial_reader_thread, or the simulator's
   thread) and a request thread of the threaded Flask server run handlers of
   the one AlertManager at the same time. The manager takes no lock, so a
   handler is a sequence of steps, each atomic under the interpreter lock:
   a load of an attribute, a store to it, a list.append, a list comprehension
   over the list an attribute held when it was loaded. *)

MaxConcReadings == 1
MaxConcRequests == 2

ConcReadingData == {[aqi |-> 80], [aqi |-> 160]}

\* the locals of a running handler
Frame(op, args, after) ==
    [op |-> op, args |-> args, after |-> after,
     counter |-> 0, alert |-> None, list |-> <<>>]

At(th, label) == pc[th] = label

Goto(th, label) == pc' = [pc EXCEPT ![th] = label]

InitConc ==
    /\ now = 0
    /\ active_alerts = NewManager.active_alerts
    /\ alert_history = NewManager.alert_history
    /\ reading_buffer = NewManager.reading_buffer
    /\ last_alert_times = NewManager.last_alert_times
    /\ alert_counter = NewManager.alert_counter
    /\ callbacks = NewManager.callbacks
    /\ db_save = NewManager.db_save
    /\ calls = NewManager.calls
    /\ reading_seq = 0
    /\ ret = [op |-> "threads", requests |-> 0, dismissed |-> {}]
    /\ pc = Idle
    /\ frame = NoFrames

\* process_reading up to the call of _create_alert in _check_threshold
ReaderBegin(data) ==
    LET reading_id == reading_seq + 1
        reading  == [f \in DOMAIN data \cup {"id"} |->
                        IF f = "id" THEN reading_id ELSE data[f]]
        aqi      == Get(reading, "aqi", 0)
        category == get_aqi_category(aqi)[1]
        allow    == can_send_alert(Manager, ThresholdKey(category), now)
        creates  == category \notin {"good", "moderate"} /\ allow.value
    IN  /\ At("reader", "idle")
        /\ reading_seq' = reading_id
        /\ reading_buffer' = DequeAppend(reading_buffer, reading, reading_buffer_maxlen)
        /\ last_alert_times' = IF category \in {"good", "moderate"}
                               THEN last_alert_times
                               ELSE allow.m.last_alert_times
        /\ frame' = [frame EXCEPT !["reader"] =
                        Frame("process_reading",
                              ThresholdAlertArgs(category, aqi, Some(reading_id)),
                              "reader_checks")]
        /\ Goto("reader", IF creates THEN "gen_load" ELSE "reader_checks")
        /\ UNCHANGED <<now, active_alerts, alert_history, alert_counter, ret,
                   hook_vars>>

\* the rest of process_reading: _check_anomaly and _check_trend
ReaderChecks ==
    LET r == check_trend(check_anomaly(Manager, now).m, now)
    IN  /\ At("reader", "reader_checks")
        /\ Becomes(r.m)
        /\ frame' = [frame EXCEPT !["reader"] = NoFrames["reader"]]
        /\ Goto("reader", "idle")
        /\ UNCHANGED <<now, reading_seq, ret>>

\* api_alerts_test: create_system_alert up to the call of _create_alert
RequestCreate ==
    /\ At("request", "idle")
    /\ frame' = [frame EXCEPT !["request"] =
                    Frame("create_system_alert",
                          SystemAlertArgs(<<"Test Alert">>, <<"This is a test alert">>,
                                          "info"),
                          "request_done")]
    /\ Goto("request", "gen_load")
    /\ ret' = [ret EXCEPT !.requests = @ + 1]
    /\ UNCHANGED <<now, mgr_vars, reading_seq>>

\* api_alerts, api_alerts_active: get_all_alerts and get_active_alerts begin
\* with _cleanup_alerts
RequestQuery(op) ==
    /\ At("request", "idle")
    /\ frame' = [frame EXCEPT !["request"] = Frame(op, None, "request_done")]
    /\ Goto("request", "clean_expired_load")
    /\ ret' = [ret EXCEPT !.requests = @ + 1]
    /\ UNCHANGED <<now, mgr_vars, reading_seq>>

\* dismiss_alert: the comprehension over the list
DismissLoad(alert_id) ==
    /\ At("request", "idle")
    /\ frame' = [frame EXCEPT !["request"] =
                    [Frame("dismiss_alert", alert_id, "request_done")
                        EXCEPT !.list = WithoutId(active_alerts, alert_id)]]
    /\ Goto("request", "dismiss_store")
    /\ ret' = [ret EXCEPT !.requests = @ + 1, !.dismissed = @ \cup {alert_id}]
    /\ UNCHANGED <<now, mgr_vars, reading_seq>>

\* dismiss_alert: the store of its result
DismissStore ==
    /\ At("request", "dismiss_store")
    /\ active_alerts' = frame["request"].list
    /\ Goto("request", "request_done")
    /\ UNCHANGED <<now, alert_history, reading_buffer, last_alert_times, alert_counter,
                   reading_seq, ret, frame,
                   hook_vars>>

\* the handler of the request returns
RequestDone ==
    /\ At("request", "request_done")
    /\ frame' = [frame EXCEPT !["request"] = NoFrames["request"]]
    /\ Goto("request", "idle")
    /\ UNCHANGED <<now, mgr_vars, reading_seq, ret>>

\* _generate_alert_id, self._alert_counter += 1: the load
GenLoad(th) ==
    /\ At(th, "gen_load")
    /\ frame' = [frame EXCEPT ![th].counter = alert_counter]
    /\ Goto(th, "gen_store")
    /\ UNCHANGED <<now, mgr_vars, reading_seq, ret>>

\* self._alert_counter += 1: the store
GenStore(th) ==
    /\ At(th, "gen_store")
    /\ alert_counter' = frame[th].counter + 1
    /\ Goto(th, "gen_format")
    /\ UNCHANGED <<now, active_alerts, alert_history, reading_buffer, last_alert_times,
                   reading_seq, ret, frame,
                   hook_vars>>

\* the id is formatted from the counter as it is now, and the Alert is built
GenFormat(th) ==
    /\ At(th, "gen_format")
    /\ frame' = [frame EXCEPT ![th].alert =
                    NewAlert(FormatAlertId(strftime(now), alert_counter),
                             frame[th].args, now)]
    /\ Goto(th, "append_active")
    /\ UNCHANGED <<now, mgr_vars, reading_seq, ret>>

\* self.active_alerts.append(alert)
AppendActive(th) ==
    /\ At(th, "append_active")
    /\ active_alerts' = Append(active_alerts, frame[th].alert)
    /\ Goto(th, "append_history")
    /\ UNCHANGED <<now, alert_history, reading_buffer, last_alert_times, alert_counter,
                   reading_seq, ret, frame,
                   hook_vars>>

\* self.alert_history.append(alert)
AppendHistory(th) ==
    /\ At(th, "append_history")
    /\ alert_history' = DequeAppend(alert_history, frame[th].alert, history_maxlen)
    /\ Goto(th, "clean_expired_load")
    /\ UNCHANGED <<now, active_alerts, reading_buffer, last_alert_times, alert_counter,
                   reading_seq, ret, frame,
                   hook_vars>>

\* _cleanup_alerts: the first comprehension
CleanExpiredLoad(th) ==
    /\ At(th, "clean_expired_load")
    /\ frame' = [frame EXCEPT ![th].list = DropExpired(active_alerts, now)]
    /\ Goto(th, "clean_expired_store")
    /\ UNCHANGED <<now, mgr_vars, reading_seq, ret>>

\* _cleanup_alerts: the store of the first comprehension
CleanExpiredStore(th) ==
    /\ At(th, "clean_expired_store")
    /\ active_alerts' = frame[th].list
    /\ Goto(th, "clean_acknowledged_load")
    /\ UNCHANGED <<now, alert_history, reading_buffer, last_alert_times, alert_counter,
                   reading_seq, ret, frame,
                   hook_vars>>

\* _cleanup_alerts: the second comprehension
CleanAcknowledgedLoad(th) ==
    /\ At(th, "clean_acknowledged_load")
    /\ frame' = [frame EXCEPT ![th].list = DropAcknowledgedOld(active_alerts, now)]
    /\ Goto(th, "clean_acknowledged_store")
    /\ UNCHANGED <<now, mgr_vars, reading_seq, ret>>

\* _cleanup_alerts: the store of the second comprehension
CleanAcknowledgedStore(th) ==
    /\ At(th, "clean_acknowledged_store")
    /\ active_alerts' = frame[th].list
    /\ Goto(th, "clean_limit")
    /\ UNCHANGED <<now, alert_history, reading_buffer, last_alert_times, alert_counter,
                   reading_seq, ret, frame,
                   hook_vars>>

\* _cleanup_alerts: the limit; then the caller goes on (no callback is
\* registered and no db_save is given)
CleanLimit(th) ==
    /\ At(th, "clean_limit")
    /\ active_alerts' = LimitActive(active_alerts)
    /\ Goto(th, frame[th].after)
    /\ UNCHANGED <<now, alert_history, reading_buffer, last_alert_times, alert_counter,
                   reading_seq, ret, frame,
                   hook_vars>>

NextConc ==
    \/ /\ reading_seq < MaxConcReadings
       /\ \E data \in ConcReadingData : ReaderBegin(data)
    \/ ReaderChecks
    \/ ret.requests < MaxConcRequests /\ RequestCreate
    \/ /\ ret.requests < MaxConcRequests
       /\ \E op \in {"get_all_alerts", "get_active_alerts"} : RequestQuery(op)
    \/ /\ ret.requests < MaxConcRequests
       /\ \E i \in 1..Len(active_alerts) : DismissLoad(active_alerts[i].id)
    \/ DismissStore
    \/ RequestDone
    \/ \E th \in Threads :
          \/ GenLoad(th)
          \/ GenStore(th)
          \/ GenFormat(th)
          \/ AppendActive(th)
          \/ AppendHistory(th)
          \/ CleanExpiredLoad(th)
          \/ CleanExpiredStore(th)
          \/ CleanAcknowledgedLoad(th)
          \/ CleanAcknowledgedStore(th)
          \/ CleanLimit(th)

SpecConc == InitConc /\ [][NextConc]_vars

\* C9: no interleaving loses a created alert: an alert that is in the history
\* and was not dismissed (none expires, ages or is evicted here: the clock
\* stands still and the list is short) is in the active list.
C9_NoLostAlert ==
    \A i \in 1..Len(alert_history) :
       \/ alert_history[i].id \in ret.dismissed
       \/ \E k \in 1..Len(active_alerts) : active_alerts[k] = alert_history[i]

\* C10: under any interleaving of creations no two alerts get the same id.
C10_UniqueIds ==
    \A i, j \in 1..Len(alert_history) :
       i # j => alert_history[i].id # alert_history[j].id

----------------------------------------------------------------------------
(* SpecLife: the life of an alert. Alerts that expire after an hour (system
   alerts) and alerts that never expire (Threshold alerts) are created,
   acknowledged, dismissed, read and cleared while the clock goes past the
   hour in steps of half an hour. *)

MaxLifeTime == 90
MaxLifeAlerts == 2
MaxLifeReadings == 1

\* ids of the alerts ever created that the history still holds
HistoryIds == {alert_history[i].id : i \in 1..Len(alert_history)}

ActiveIds == {active_alerts[i].id : i \in 1..Len(active_alerts)}

NextLife ==
    \/ now + 30 <= MaxLifeTime /\ Tick(30)
    \/ /\ alert_counter < MaxLifeAlerts
       /\ CreateSystemAlert("info")
    \/ /\ alert_counter < MaxLifeAlerts
       /\ reading_seq < MaxLifeReadings
       /\ ProcessReading([aqi |-> 160])
    \/ \E id \in HistoryIds \cup {UnknownId} : AcknowledgeAlert(id)
    \/ \E id \in HistoryIds \cup {UnknownId} : DismissAlert(id)
    \/ GetActiveAlerts
    \/ \E inc \in BOOLEAN : GetAllAlerts(inc)
    \/ GetAlertCounts
    \/ ClearAll

SpecLife == Init /\ [][NextLife]_vars

\* C11: in a sequential run, clear_all included, every alert created gets an id
\* that no alert created before it has: the history (which holds every alert
\* created so far, dismissed, expired or cleared ones too) has no id twice.
C11_IdsNeverReused ==
    /\ Len(alert_history) = alert_counter
    /\ \A i, j \in 1..Len(alert_history) :
          i # j => alert_history[i].id # alert_history[j].id

\* an alert was created in the same minute as an earlier Threshold alert, after
\* a clear_all (which alone empties the cooldown map) had removed that one
C11_Witness ==
    /\ ret.op = "create_system_alert"
    /\ Len(alert_history) = 2
    /\ IsThreshold(alert_history[1])
    /\ alert_history[1].timestamp = alert_history[2].timestamp
    /\ DOMAIN last_alert_times = {}
    /\ Len(active_alerts) = 1

\* an alert whose expires_at has passed, or an acknowledged alert older than 1 hour
Stale(a) ==
    \/ a.expires_at # None /\ fromisoformat(a.expires_at) < now
    \/ a.acknowledged /\ now - fromisoformat(a.timestamp) > 60

\* C12: cleanup runs before every read of the active alerts: what
\* get_active_alerts and get_all_alerts return holds no stale alert,
\* get_alert_counts counts none, and its total is the number of alerts
\* get_active_alerts returns in the same state.
C12_CleanupBeforeRead ==
    /\ ret.op \in {"get_active_alerts", "get_all_alerts"} =>
          \A i \in 1..Len(ret.value) : ~Stale(ret.value[i])
    /\ ret.op = "get_alert_counts" =>
          /\ \A i \in 1..Len(active_alerts) :
                ~active_alerts[i].acknowledged => ~Stale(active_alerts[i])
          /\ ret.value.total = Len(get_active_alerts(Manager, now).value)

\* the alert's expires_at is at or before the current time
ExpiredNow(a) == a.expires_at # None /\ fromisoformat(a.expires_at) <= now

\* C13: get_active_alerts and get_all_alerts never return an alert whose
\* expires_at is at or before the current time; get_active_alerts returns no
\* acknowledged alert, and get_all_alerts returns one only when
\* include_acknowledged is true.
C13_ReadsAreCurrent ==
    /\ ret.op = "get_active_alerts" =>
          \A i \in 1..Len(ret.value) :
             ~ExpiredNow(ret.value[i]) /\ ~ret.value[i].acknowledged
    /\ ret.op = "get_all_alerts" =>
          \A i \in 1..Len(ret.value) :
             /\ ~ExpiredNow(ret.value[i])
             /\ ret.value[i].acknowledged => ret.include_acknowledged

\* get_all_alerts(False) returned nothing: of the two alerts created one expires
\* at this very minute and is gone from the list, the other is in the list,
\* acknowledged
C13_Witness ==
    /\ ret.op = "get_all_alerts"
    /\ ~ret.include_acknowledged
    /\ ret.value = <<>>
    /\ \E i \in 1..Len(active_alerts) : active_alerts[i].acknowledged
    /\ \E h \in 1..Len(alert_history) :
          /\ alert_history[h].expires_at = isoformat(now)
          /\ alert_history[h].id \notin ActiveIds

\* C14: dismiss_alert with an id that matches no alert of the active list
\* returns false and changes nothing.
C14_DismissUnknownFails ==
    [][\A id \in HistoryIds \cup {UnknownId} :
          (ret'.op = "dismiss_alert" /\ DismissAlert(id) /\ id \notin ActiveIds)
          => (ret'.value = FALSE /\ UNCHANGED mgr_vars)]_vars

\* position of the alert with that id in the active list, 0 if there is none
ActiveIndex(id) ==
    IF id \in ActiveIds
    THEN CHOOSE i \in 1..Len(active_alerts) : active_alerts[i].id = id
    ELSE 0

\* C15: dismiss_alert(id) always returns true; it takes out of the active list
\* the alert with that id and no other (the others keep their order), leaves
\* the history, the cooldown map, the reading buffer and the counter as they
\* are, and for an id that is not in the list (never there, or dismissed
\* before) leaves the whole state as it is.
C15_DismissRemovesOne ==
    [][\A id \in HistoryIds \cup {UnknownId} :
          (ret'.op = "dismiss_alert" /\ DismissAlert(id)) =>
             LET at == ActiveIndex(id)
             IN  /\ ret'.value = TRUE
                 /\ Len(active_alerts') = Len(active_alerts) - (IF at = 0 THEN 0 ELSE 1)
                 /\ \A k \in 1..Len(active_alerts') :
                       active_alerts'[k] =
                          active_alerts[IF at = 0 \/ k < at THEN k ELSE k + 1]
                 /\ \A k \in 1..Len(active_alerts') : active_alerts'[k].id # id
                 /\ UNCHANGED <<alert_history, last_alert_times, reading_buffer,
                                alert_counter>>
                 /\ at = 0 => UNCHANGED mgr_vars]_vars

\* of two alerts created in the same minute the first was dismissed and the
\* second is still in the list
C15_Witness ==
    /\ ret.op = "dismiss_alert"
    /\ ret.value = TRUE
    /\ Len(alert_history) = 2
    /\ alert_history[1].timestamp = alert_history[2].timestamp
    /\ ret.alert_id = alert_history[1].id
    /\ active_alerts = <<alert_history[2]>>

\* the alert with its flag set
Acknowledged(a) == [a EXCEPT !.acknowledged = TRUE]

\* C16: acknowledge_alert(id) returns true exactly when an alert with that id
\* is in the active list, and then sets the flag of that alert and of no other
\* (the history shows the same alert); for an id that is not in the list
\* (never created, dismissed, cleaned up or cleared) it returns false and
\* leaves the state as it is. No step of any operation takes the flag of an
\* alert back to false.
C16_Acknowledge ==
    [][/\ \A id \in HistoryIds \cup {UnknownId} :
             (ret'.op = "acknowledge_alert" /\ AcknowledgeAlert(id)) =>
                LET at == ActiveIndex(id)
                IN  /\ ret'.value = (id \in ActiveIds)
                    /\ at = 0 => UNCHANGED mgr_vars
                    /\ at # 0 =>
                          /\ active_alerts' =
                                [k \in 1..Len(active_alerts) |->
                                    IF k = at THEN Acknowledged(active_alerts[k])
                                    ELSE active_alerts[k]]
                          /\ alert_history' =
                                [h \in 1..Len(alert_history) |->
                                    IF alert_history[h].id = id
                                    THEN Acknowledged(alert_history[h])
                                    ELSE alert_history[h]]
                          /\ UNCHANGED <<last_alert_times, reading_buffer, alert_counter>>
       /\ \A h \in 1..Len(alert_history) :
             alert_history[h].acknowledged => alert_history'[h].acknowledged
       /\ \A i \in 1..Len(active_alerts), j \in 1..Len(active_alerts') :
             (active_alerts[i].id = active_alerts'[j].id /\ active_alerts[i].acknowledged)
             => active_alerts'[j].acknowledged]_vars

\* the second of two active alerts was acknowledged and the first was not
C16_Witness ==
    /\ ret.op = "acknowledge_alert"
    /\ ret.value = TRUE
    /\ Len(active_alerts) = 2
    /\ ret.alert_id = active_alerts[2].id
    /\ active_alerts[2].acknowledged
    /\ ~active_alerts[1].acknowledged
    /\ alert_history = active_alerts

\* the step is one of an operation that has run _cleanup_alerts: a read of the
\* list, or a call that has created an alert
RanCleanup ==
    \/ ret'.op \in {"get_active_alerts", "get_all_alerts", "create_system_alert"}
    \/ ret'.op = "process_reading" /\ ret'.value # <<>>

\* the alert has no expiry, or one that has not come
Unexpired(a) == a.expires_at = None \/ fromisoformat(a.expires_at) > now

\* C17 (as claimed): an alert acknowledged at time t that has not expired and
\* is not dismissed is still in the active list after every cleanup that runs
\* before t + 1 hour; stated for the cleanups that run in the very minute of
\* the acknowledgement.
C17_Original_AgingFromAcknowledgement ==
    [][(/\ ret.op = "acknowledge_alert"
        /\ ret.value = TRUE
        /\ RanCleanup
        /\ now' = now
        /\ \E i \in 1..Len(active_alerts) :
              active_alerts[i].id = ret.alert_id /\ Unexpired(active_alerts[i]))
       => \E j \in 1..Len(active_alerts') : active_alerts'[j].id = ret.alert_id]_vars

\* C17 (amended): the hour of the acknowledged-aging runs from the creation of
\* the alert, whenever it was acknowledged: a cleanup keeps an acknowledged
\* alert that has not expired while less than 1 hour has passed since its
\* creation, and removes it from then on.
C17_AgingFromCreation ==
    [][RanCleanup =>
          \A i \in 1..Len(active_alerts) :
             (active_alerts[i].acknowledged /\ Unexpired(active_alerts[i])) =>
                ((now - fromisoformat(active_alerts[i].timestamp) < 60)
                 <=> \E j \in 1..Len(active_alerts') :
                        active_alerts'[j] = active_alerts[i])]_vars

\* a read at 1:00 kept the acknowledged alert made at 0:30 and not the
\* acknowledged Threshold alert made at 0:00, which never expires
C17_Witness ==
    /\ ret.op = "get_all_alerts"
    /\ ret.include_acknowledged
    /\ now = 60
    /\ Len(alert_history) = 2
    /\ IsThreshold(alert_history[1])
    /\ alert_history[1].acknowledged
    /\ alert_history[1].timestamp = isoformat(0)
    /\ alert_history[2].acknowledged
    /\ alert_history[2].timestamp = isoformat(30)
    /\ ret.value = <<alert_history[2]>>

\* C18: once an alert is acknowledged and more than 1 hour has passed since its
\* creation, the next operation that runs the cleanup (a creation,
\* get_active_alerts or get_all_alerts) takes it out of the active list, and
\* the history still holds it.
C18_AcknowledgedAgesOut ==
    [][RanCleanup =>
          \A i \in 1..Len(active_alerts) :
             (/\ active_alerts[i].acknowledged
              /\ now - fromisoformat(active_alerts[i].timestamp) > 60)
             => /\ active_alerts[i].id \notin {active_alerts'[j].id :
                                                 j \in 1..Len(active_alerts')}
                /\ \E h \in 1..Len(alert_history') :
                      alert_history'[h] = active_alerts[i]]_vars

\* at 1:30 a creation has run the cleanup: the acknowledged Threshold alert of
\* 0:00 is in the history and not in the active list, where the new alert is
C18_Witness ==
    /\ ret.op = "create_system_alert"
    /\ now = 90
    /\ Len(alert_history) = 2
    /\ IsThreshold(alert_history[1])
    /\ alert_history[1].acknowledged
    /\ alert_history[1].timestamp = isoformat(0)
    /\ active_alerts = <<ret.value>>
    /\ ret.value = alert_history[2]

----------------------------------------------------------------------------
(* SpecRing: more alerts than the history holds. Alerts are created until the
   ring of the history is full; from then on the alerts created since may
   be acknowledged or dismissed, the list read or cleared, one
   Threshold alert (which never expires) created by a reading, and the clock
   taken an hour on, past every expiry and the age of the acknowledged. *)

MaxRingAlerts == 502
MaxRingTime == 60

RingFull == alert_counter >= history_maxlen

\* the ids of the active alerts created since the ring is full
NewestIds == {active_alerts[i].id : i \in {k \in 1..Len(active_alerts) :
                                               active_alerts[k].id[3] > history_maxlen}}

NextRing ==
    \/ /\ alert_counter < MaxRingAlerts
       /\ CreateSystemAlert("info")
    \/ /\ RingFull
       /\ alert_counter < MaxRingAlerts
       /\ reading_seq < 1
       /\ ProcessReading([aqi |-> 160])
    \/ RingFull /\ now + 60 <= MaxRingTime /\ Tick(60)
    \/ RingFull /\ \E id \in NewestIds : AcknowledgeAlert(id)
    \/ RingFull /\ \E id \in NewestIds : DismissAlert(id)
    \/ RingFull /\ GetAllAlerts(TRUE)
    \/ RingFull /\ ClearAll

SpecRing == Init /\ [][NextRing]_vars

\* C19: the history is the last min(n, 500) of the n alerts created so far, in
\* the order of their creation, whatever was acknowledged, dismissed, expired,
\* aged, evicted from the active list or cleared.
C19_HistoryRing ==
    /\ Len(alert_history) = (IF alert_counter < 500 THEN alert_counter ELSE 500)
    /\ \A k \in 1..Len(alert_history) :
          Serial(alert_history[k]) = alert_counter - Len(alert_history) + k

\* 502 alerts were created: the history holds the 3rd to the 502nd, one of
\* them an acknowledged Threshold alert, and after an hour and a clear_all the
\* active list holds none
C19_Witness ==
    /\ alert_counter = 502
    /\ Len(alert_history) = 500
    /\ Serial(alert_history[1]) = 3
    /\ Serial(alert_history[500]) = 502
    /\ \E h \in 1..500 : IsThreshold(alert_history[h]) /\ alert_history[h].acknowledged
    /\ now = 60
    /\ DOMAIN last_alert_times = {}
    /\ active_alerts = <<>>

----------------------------------------------------------------------------
(* SpecNotify: a manager built with or without db_save, callbacks registered
   one after the other, and alerts created. A callback, like db_save, is a
   function that returns or raises an Exception. *)

MaxCallbacks == 2
MaxNotifyAlerts == 2
MaxNotifyReadings == 1

Observers == {[name |-> n, raises |-> r] : n \in {"first", "second"}, r \in BOOLEAN}

SaveFunctions == {None} \cup {Some([name |-> "db_save", raises |-> r]) : r \in BOOLEAN}

\* AlertManager(db_save_func=...)
InitNotify ==
    /\ now = 0
    /\ active_alerts = NewManager.active_alerts
    /\ alert_history = NewManager.alert_history
    /\ reading_buffer = NewManager.reading_buffer
    /\ last_alert_times = NewManager.last_alert_times
    /\ alert_counter = NewManager.alert_counter
    /\ callbacks = NewManager.callbacks
    /\ db_save \in SaveFunctions
    /\ calls = NewManager.calls
    /\ reading_seq = 0
    /\ ret = [op |-> "init"]
    /\ pc = Idle
    /\ frame = NoFrames

NextNotify ==
    \/ /\ Len(callbacks) < MaxCallbacks
       /\ \E cb \in Observers : RegisterCallback(cb)
    \/ /\ alert_counter < MaxNotifyAlerts
       /\ CreateSystemAlert("info")
    \/ /\ alert_counter < MaxNotifyAlerts
       /\ reading_seq < MaxNotifyReadings
       /\ ProcessReading([aqi |-> 160])

SpecNotify == InitNotify /\ [][NextNotify]_vars

\* the calls a creation makes: the callbacks in the order of their
\* registration, then db_save if the manager has one
CallsFor(alert) ==
    [i \in 1..Len(callbacks) |-> Call(callbacks[i].name, alert)]
    \o (IF db_save = None THEN <<>> ELSE <<Call("db_save", alert)>>)

\* C20: a creation calls every registered callback once with the new alert, in
\* the order of registration, then db_save (if there is one) once; whether
\* any of them raises or not, the remaining ones are called, the caller gets
\* the alert, and the active list and the history hold it.
C20_NotifyAll ==
    [][alert_counter' # alert_counter =>
          LET alert == alert_history'[Len(alert_history')]
          IN  /\ alert_counter' = alert_counter + 1
              /\ calls' = calls \o CallsFor(alert)
              /\ ret'.op = "create_system_alert" => ret'.value = alert
              /\ ret'.op = "process_reading" => ret'.value = <<alert>>
              /\ active_alerts' = Append(active_alerts, alert)
              /\ alert_history' = Append(alert_history, alert)
              /\ UNCHANGED <<callbacks, db_save>>]_vars

\* the first callback raises, the second does not, db_save raises: a creation
\* has called the three in that order and returned the alert
C20_Witness ==
    /\ ret.op = "create_system_alert"
    /\ callbacks = <<[name |-> "first", raises |-> TRUE],
                     [name |-> "second", raises |-> FALSE]>>
    /\ db_save = Some([name |-> "db_save", raises |-> TRUE])
    /\ calls = <<Call("first", ret.value), Call("second", ret.value),
                 Call("db_save", ret.value)>>
    /\ active_alerts = <<ret.value>>
    /\ alert_history = <<ret.value>>

----------------------------------------------------------------------------
(* SpecTrend: streams of readings that fill the window of the trend: ten
   readings of one AQI, then readings in ascending order of AQI *)

MaxTrendReadings == 20

OlderAqis == {0, 4, 50, 70}
NewerAqis == {5, 6, 50, 55, 65, 70}

\* the AQI values a stream may go on with
TrendAqis ==
    IF reading_seq = 0 THEN OlderAqis
    ELSE IF reading_seq < 10 THEN {reading_buffer[1].aqi}
    ELSE IF reading_seq = 10 THEN NewerAqis
    ELSE {v \in NewerAqis : v >= reading_buffer[Len(reading_buffer)].aqi}

NextTrend ==
    /\ reading_seq < MaxTrendReadings
    /\ \E aqi \in TrendAqis : ProcessReading([aqi |-> aqi])

SpecTrend == Init /\ [][NextTrend]_vars

IsTrend(a) == a.type = "trend"

TrendAlerts(alerts) == {i \in 1..Len(alerts) : IsTrend(alerts[i])}

\* sum of the AQI of a window of 10 readings of the buffer, which holds n readings
\* after the call: the window that ends k readings before the last
TenSum(buffer, k) ==
    Sum([i \in 1..10 |-> buffer[Len(buffer) - k - 10 + i].aqi])

\* C21: with 20 or more readings in the buffer, process_reading returns a
\* Trend alert (Warning, expiring after 60 minutes) exactly when the key
\* "trend_worsening" is out of cooldown, the mean of the older 10 of the last
\* 20 readings is above 0 and the mean of the newer 10 is more than 30%
\* above it.
C21_TrendRule ==
    [][(ret'.op = "process_reading" /\ Len(reading_buffer') >= 20) =>
          LET older == TenSum(reading_buffer', 10)
              newer == TenSum(reading_buffer', 0)
              cooling == /\ <<"trend_worsening">> \in DOMAIN last_alert_times
                         /\ now - last_alert_times[<<"trend_worsening">>] < 15
              got == TrendAlerts(ret'.value)
          IN  /\ got # {} <=> (~cooling /\ older > 0 /\ 10 * (newer - older) > 3 * older)
              /\ \A i \in got :
                    /\ ret'.value[i].severity = "warning"
                    /\ ret'.value[i].expires_at = isoformat(now + 60)]_vars

----------------------------------------------------------------------------
(* SpecZScore: streams of readings around the anomaly window: nine readings
   in ascending order of AQI (the order of a baseline does not matter), then
   readings of any of the values *)

MaxZScoreReadings == 11

ZScoreValues == {5, 20, 50, 80}

ZScoreAqis ==
    IF reading_seq = 0 \/ reading_seq >= 9 THEN ZScoreValues
    ELSE {v \in ZScoreValues : v >= reading_buffer[Len(reading_buffer)].aqi}

NextZScore ==
    /\ reading_seq < MaxZScoreReadings
    /\ \E aqi \in ZScoreAqis : ProcessReading([aqi |-> aqi])

SpecZScore == Init /\ [][NextZScore]_vars

\* C22: with 10 or more readings in the buffer and a baseline (the 9 readings
\* before the current one) of mean m and nonzero sample deviation s,
\* process_reading returns an Anomaly alert exactly when |current - m| > 3 s
\* and the key "anomaly" is out of cooldown; the alert is a Warning for the
\* current AQI, a "spike" when current > m and a "drop" when current < m, and
\* expires 30 minutes after its creation. With S the sum and Q the sum of the
\* squares of the baseline, m = S / 9 and s^2 = (9 Q - S^2) / 72.
C22_ZScoreRule ==
    [][(ret'.op = "process_reading" /\ Len(reading_buffer') >= 10) =>
          LET n == Len(reading_buffer')
              base == [i \in 1..9 |-> reading_buffer'[n - 10 + i].aqi]
              current == reading_buffer'[n].aqi
              S == Sum(base)
              Q == Sum([i \in 1..9 |-> base[i] * base[i]])
              cooling == /\ <<"anomaly">> \in DOMAIN last_alert_times
                         /\ now - last_alert_times[<<"anomaly">>] < 15
              got == AnomalyAlerts(ret'.value)
          IN  9 * Q - S * S > 0 =>
                 /\ got # {} <=>
                       (~cooling /\ 8 * (9 * current - S) * (9 * current - S)
                                       > 81 * (9 * Q - S * S))
                 /\ \A i \in got :
                       /\ ret'.value[i].severity = "warning"
                       /\ ret'.value[i].aqi_value = Some(current)
                       /\ 9 * current # S
                       /\ ret'.value[i].metadata.direction =
                             (IF 9 * current > S THEN "spike" ELSE "drop")
                       /\ ret'.value[i].expires_at = isoformat(now + 30)]_vars

\* the 10th reading, far below a baseline that is not constant, returned an
\* Anomaly alert, a "drop" that expires in 30 minutes
C22_Witness ==
    /\ ret.op = "process_reading"
    /\ Len(reading_buffer) = 10
    /\ Len(ret.value) = 1
    /\ IsAnomaly(ret.value[1])
    /\ ret.value[1].metadata.direction = "drop"
    /\ ret.value[1].expires_at = isoformat(30)
    /\ ret.reading.aqi < reading_buffer[1].aqi

----------------------------------------------------------------------------
(* Claims on the alert's fields, checked under SpecLife *)

\* b is a but for the flag, which only a call of acknowledge_alert with the
\* id of the alert may have changed, and only to true
SameButFlag(a, b) ==
    /\ [b EXCEPT !.acknowledged = a.acknowledged] = a
    /\ b.acknowledged # a.acknowledged =>
          /\ ret'.op = "acknowledge_alert"
          /\ ret'.alert_id = a.id
          /\ b.acknowledged

\* C23: no operation changes the id, type, severity, title, message,
\* timestamp, reading_id, aqi_value, auto_dismiss, expires_at or metadata of
\* an alert, in the history or in the active list; acknowledged changes only
\* through acknowledge_alert.
C23_FieldsFrozen ==
    [][/\ \A h \in 1..Len(alert_history) :
             SameButFlag(alert_history[h], alert_history'[h])
       /\ \A i \in 1..Len(active_alerts), j \in 1..Len(active_alerts') :
             active_alerts[i].id = active_alerts'[j].id
             => SameButFlag(active_alerts[i], active_alerts'[j])]_vars

\* half an hour after its creation and its acknowledgement a read returned the
\* system alert with the fields it was created with
C23_Witness ==
    /\ ret.op = "get_all_alerts"
    /\ now = 30
    /\ ret.value = <<[NewAlert(FormatAlertId(0, 1),
                                SystemAlertArgs(<<"Test Alert">>,
                                                <<"This is a test alert">>, "info"), 0)
                         EXCEPT !.acknowledged = TRUE]>>
    /\ alert_history = ret.value

----------------------------------------------------------------------------
(* SpecDay: Threshold alerts over more than a day. The clock goes on by an
   hour or by a day; unhealthy readings create Threshold alerts, which are
   acknowledged, dismissed, read and cleared. *)

MaxDayTime == 1500
MaxDayAlerts == 1
MaxDayReadings == 2

DaySteps == {60, alert_history_hours * 60}

NextDay ==
    \/ \E d \in DaySteps : now + d <= MaxDayTime /\ Tick(d)
    \/ /\ alert_counter < MaxDayAlerts
       /\ reading_seq < MaxDayReadings
       /\ ProcessReading([aqi |-> 160])
    \/ \E id \in ActiveIds \cup {UnknownId} : AcknowledgeAlert(id)
    \/ \E id \in ActiveIds \cup {UnknownId} : DismissAlert(id)
    \/ GetActiveAlerts
    \/ \E inc \in BOOLEAN : GetAllAlerts(inc)
    \/ GetAlertCounts
    \/ ClearAll

SpecDay == Init /\ [][NextDay]_vars

\* the step creates an alert
Creates == ret'.op \in {"process_reading", "process_forecast", "create_system_alert"}
           /\ alert_counter' > alert_counter

----------------------------------------------------------------------------
(* SpecSparse: input that is missing or too short. The first readings are
   free (with or without an aqi field), the following ones have no aqi field,
   up to one reading short of the trend window; forecasts are None, without a
   forecast field, empty, or hold one prediction. *)

MaxSparseReadings == 19
MaxFree == 3

NoAqi == [f \in {} |-> 0]

SparseData == {NoAqi, [aqi |-> 10], [aqi |-> 160]}

SparseForecasts == {
    None,
    [success |-> FALSE],
    [forecast |-> <<>>],
    [forecast |-> <<Point(10, 180)>>] }

NextSparse ==
    \/ /\ reading_seq < MaxSparseReadings
       /\ \E data \in (IF reading_seq < MaxFree THEN SparseData ELSE {NoAqi}) :
             ProcessReading(data)
    \/ \E f \in SparseForecasts : ProcessForecast(f)

SpecSparse == Init /\ [][NextSparse]_vars

\* the reading with AQI 0 in the place of a missing aqi field
WithAqi0(reading) ==
    [f \in DOMAIN reading \cup {"aqi"} |-> IF f = "aqi" THEN 0 ELSE reading[f]]

\* C25: with fewer than 10 readings in the buffer process_reading returns no
\* Anomaly alert, with fewer than 20 no Trend alert; a reading without an aqi
\* field returns no Threshold alert, and what it returns and does to the
\* alerts is what a reading with AQI 0 does; process_forecast on None, on a
\* forecast without the field "forecast" or with an empty one returns the
\* empty list and leaves active list, history, cooldown times and counter.
C25_MissingInput ==
    [][/\ ret'.op = "process_reading" =>
             /\ Len(reading_buffer') < 10 => AnomalyAlerts(ret'.value) = {}
             /\ Len(reading_buffer') < 20 => TrendAlerts(ret'.value) = {}
             /\ "aqi" \notin DOMAIN ret'.reading =>
                   /\ ThresholdAlerts(ret'.value) = {}
                   /\ LET r == process_reading(Manager, WithAqi0(ret'.reading), now)
                      IN  /\ ret'.value = r.value
                          /\ active_alerts' = r.m.active_alerts
                          /\ alert_history' = r.m.alert_history
                          /\ last_alert_times' = r.m.last_alert_times
                          /\ alert_counter' = r.m.alert_counter
       /\ ret'.op = "process_forecast" /\ Predictions(ret'.forecast) = <<>> =>
             /\ ret'.value = <<>>
             /\ UNCHANGED <<active_alerts, alert_history, last_alert_times,
                            alert_counter>>]_vars

\* the third reading, AQI 160 after 10 and a reading without aqi, returned
\* the Threshold alert and no other, and a forecast without predictions has
\* been processed since
C25_Witness ==
    /\ ret.op = "process_forecast"
    /\ Predictions(ret.forecast) = <<>>
    /\ Len(reading_buffer) = 3
    /\ "aqi" \notin DOMAIN reading_buffer[2]
    /\ AqiValues(reading_buffer) = <<10, 0, 160>>
    /\ Len(alert_history) = 1
    /\ IsThreshold(alert_history[1])

----------------------------------------------------------------------------
(* SpecBuffer: the buffer of readings past its capacity. The AQI goes between
   80 and 90 from one reading to the next; a reading of 400 may come in when
   the buffer holds none. *)

MaxBufferReadings == 52

SteadyAqi == IF reading_seq % 2 = 0 THEN 80 ELSE 90
SpikeAqi == 400

NextBuffer ==
    /\ reading_seq < MaxBufferReadings
    /\ \/ ProcessReading([aqi |-> SteadyAqi])
       \/ /\ \A i \in 1..Len(reading_buffer) : reading_buffer[i].aqi # SpikeAqi
          /\ ProcessReading([aqi |-> SpikeAqi])

SpecBuffer == Init /\ [][NextBuffer]_vars

\* C26: the buffer holds at most 50 readings, the last min(n, 50) of the n
\* passed to process_reading, in the order of arrival, whether the call
\* returns an alert or not; the evaluators see the reading of the call as the
\* last of their windows: an Anomaly alert carries its AQI and the sum of the
\* 9 before it, a Trend alert the sums of the two halves of the last 20.
C26_ReadingBuffer ==
    [][ret'.op = "process_reading" =>
         LET buffer == reading_buffer'
             n      == Len(buffer)
         IN  /\ n <= 50
             /\ n = (IF reading_seq' < 50 THEN reading_seq' ELSE 50)
             /\ buffer = Last(Append(reading_buffer, ret'.reading), 50)
             /\ buffer[n] = ret'.reading
             /\ \A k \in 1..n : buffer[k].id = reading_seq' - n + k
             /\ \A i \in AnomalyAlerts(ret'.value) :
                   /\ n >= 10
                   /\ ret'.value[i].aqi_value = Some(ret'.reading.aqi)
                   /\ ret'.value[i].metadata.mean_sum
                        = TenSum(buffer, 0) - ret'.reading.aqi
             /\ \A i \in TrendAlerts(ret'.value) :
                   /\ n >= 20
                   /\ ret'.value[i].metadata.to_sum = TenSum(buffer, 0)
                   /\ ret'.value[i].metadata.from_sum = TenSum(buffer, 10)]_vars

\* the buffer is full and has dropped readings, and the reading of 400 just
\* processed returned a Threshold, an Anomaly and a Trend alert
C26_Witness ==
    /\ ret.op = "process_reading"
    /\ reading_seq > 50
    /\ Len(reading_buffer) = 50
    /\ reading_buffer[1].id = reading_seq - 49
    /\ ret.reading.aqi = SpikeAqi
    /\ ThresholdAlerts(ret.value) # {}
    /\ AnomalyAlerts(ret.value) # {}
    /\ TrendAlerts(ret.value) # {}

----------------------------------------------------------------------------
(* SpecStall: the producer's handlers step by step through the calls of the
   observers. callback(alert) and self.db_save(...) are plain calls on the
   thread of the handler (no timeout, no other thread): the handler goes on
   when the call returns or raises, and a call that does neither keeps it
   where it is. The thread takes its next step whenever it has one. *)

MaxStallAlerts == 2
MaxStallReadings == 1
MaxStallCallbacks == 2

\* an observer returns, raises, or does neither
StallObservers == {
    [name |-> "returning", raises |-> FALSE, returns |-> TRUE],
    [name |-> "raising",   raises |-> TRUE,  returns |-> FALSE],
    [name |-> "blocked",   raises |-> FALSE, returns |-> FALSE] }

StallSaveFunctions == {
    None,
    Some([name |-> "db_save", raises |-> FALSE, returns |-> TRUE]),
    Some([name |-> "db_save", raises |-> FALSE, returns |-> FALSE]) }

StallForecast == [forecast |-> <<Point(10, 180)>>]

InitStall ==
    /\ now = 0
    /\ active_alerts = NewManager.active_alerts
    /\ alert_history = NewManager.alert_history
    /\ reading_buffer = NewManager.reading_buffer
    /\ last_alert_times = NewManager.last_alert_times
    /\ alert_counter = NewManager.alert_counter
    /\ callbacks = NewManager.callbacks
    /\ db_save \in StallSaveFunctions
    /\ calls = NewManager.calls
    /\ reading_seq = 0
    /\ ret = [op |-> "init"]
    /\ pc = Idle
    /\ frame = NoFrames

\* _create_alert up to the notification: the id, the Alert, the two appends
\* and the cleanup
store_alert(m, a, t) ==
    LET gen   == generate_alert_id(m, t)
        alert == NewAlert(gen.value, a, t)
        m1    == [gen.m EXCEPT
                     !.active_alerts = Append(@, alert),
                     !.alert_history = DequeAppend(@, alert, history_maxlen)]
    IN  Result(cleanup_alerts(m1, t), alert)

\* what a call returns, with the call: its name and its argument
Returned(call, value) ==
    [f \in DOMAIN call \cup {"value"} |-> IF f = "value" THEN value ELSE call[f]]

\* the handler of the call has come to _create_alert with the manager m: the
\* alert is stored and the loop over the callbacks begins
ProducerCreates(call, m, a) ==
    LET st == store_alert(m, a, now)
    IN  /\ Becomes(st.m)
        /\ frame' = [frame EXCEPT !["reader"] =
                        [call |-> call, alert |-> st.value, i |-> 1]]
        /\ Goto("reader", "callbacks")
        /\ UNCHANGED <<now, ret>>

\* the handler of the call returns value and leaves the manager m
ProducerReturns(call, m, value) ==
    /\ Becomes(m)
    /\ ret' = Returned(call, value)
    /\ frame' = [frame EXCEPT !["reader"] = NoFrames["reader"]]
    /\ Goto("reader", "idle")
    /\ UNCHANGED now

BeginSystemAlert ==
    /\ At("reader", "idle")
    /\ ProducerCreates([op |-> "create_system_alert"], Manager,
                       SystemAlertArgs(<<"Test Alert">>, <<"This is a test alert">>,
                                       "info"))
    /\ UNCHANGED reading_seq

\* process_reading up to the call of _create_alert in _check_threshold, or to
\* its return when the threshold check makes no alert
BeginReading(data) ==
    LET reading_id == reading_seq + 1
        reading  == [f \in DOMAIN data \cup {"id"} |->
                        IF f = "id" THEN reading_id ELSE data[f]]
        m0       == [Manager EXCEPT !.reading_buffer =
                                   DequeAppend(@, reading, reading_buffer_maxlen)]
        aqi      == Get(reading, "aqi", 0)
        category == get_aqi_category(aqi)[1]
        allow    == can_send_alert(m0, ThresholdKey(category), now)
        rest     == check_trend(check_anomaly(allow.m, now).m, now)
        call     == [op |-> "process_reading", reading |-> reading]
    IN  /\ At("reader", "idle")
        /\ reading_seq' = reading_id
        /\ IF category \notin {"good", "moderate"} /\ allow.value
           THEN ProducerCreates(call, allow.m,
                                ThresholdAlertArgs(category, aqi, Some(reading_id)))
           ELSE ProducerReturns(call, rest.m, <<>>)

\* process_forecast on a forecast of one prediction, up to the call of
\* _create_alert or to its return
BeginForecast(forecast) ==
    LET pred        == forecast.forecast[1]
        hours_ahead == Get(pred, "hours_ahead", 0)
        aqi         == Get(pred, "aqi", 0)
        allow       == can_send_alert(Manager, PredictiveKey(aqi), now)
        call        == [op |-> "process_forecast", forecast |-> forecast]
    IN  /\ At("reader", "idle")
        /\ IF /\ hours_ahead <= predictive_lead_time_hours * 10
              /\ aqi > 150
              /\ allow.value
           THEN ProducerCreates(call, allow.m,
                                PredictiveAlertArgs(pred, hours_ahead, aqi))
           ELSE ProducerReturns(call, Manager, <<>>)
        /\ UNCHANGED reading_seq

\* for callback in self.callbacks: callback(alert) is called
CallbackCall ==
    /\ At("reader", "callbacks")
    /\ frame["reader"].i <= Len(callbacks)
    /\ calls' = Append(calls, Call(callbacks[frame["reader"].i].name,
                                   frame["reader"].alert))
    /\ Goto("reader", "in_callback")
    /\ UNCHANGED <<now, active_alerts, alert_history, reading_buffer, last_alert_times,
                   alert_counter, callbacks, db_save, reading_seq, ret, frame>>

\* the callback returns, or raises an Exception, which is caught and printed
CallbackEnds ==
    /\ At("reader", "in_callback")
    /\ \/ callbacks[frame["reader"].i].returns
       \/ callbacks[frame["reader"].i].raises
    /\ frame' = [frame EXCEPT !["reader"].i = @ + 1]
    /\ Goto("reader", "callbacks")
    /\ UNCHANGED <<now, mgr_vars, reading_seq, ret>>

\* if self.db_save: self.db_save(alert.to_dict()) is called
DbSaveCall ==
    /\ At("reader", "callbacks")
    /\ frame["reader"].i > Len(callbacks)
    /\ db_save # None
    /\ calls' = SaveToDatabase(calls, db_save, frame["reader"].alert)
    /\ Goto("reader", "in_db_save")
    /\ UNCHANGED <<now, active_alerts, alert_history, reading_buffer, last_alert_times,
                   alert_counter, callbacks, db_save, reading_seq, ret, frame>>

DbSaveEnds ==
    /\ At("reader", "in_db_save")
    /\ db_save[1].returns \/ db_save[1].raises
    /\ Goto("reader", "saved")
    /\ UNCHANGED <<now, mgr_vars, reading_seq, ret, frame>>

\* _create_alert returns the alert and the handler goes on to its return
\* (process_reading by way of _check_anomaly and _check_trend)
ProducerEnds ==
    LET call == frame["reader"].call
        rest == IF call.op = "process_reading"
                THEN check_trend(check_anomaly(Manager, now).m, now)
                ELSE Result(Manager, None)
    IN  /\ \/ At("reader", "saved")
           \/ /\ At("reader", "callbacks")
              /\ frame["reader"].i > Len(callbacks)
              /\ db_save = None
        /\ ProducerReturns(call, rest.m,
                           IF call.op = "create_system_alert" THEN frame["reader"].alert
                           ELSE <<frame["reader"].alert>>)
        /\ UNCHANGED reading_seq

\* the steps of a handler that has begun
StallStep ==
    \/ CallbackCall
    \/ CallbackEnds
    \/ DbSaveCall
    \/ DbSaveEnds
    \/ ProducerEnds

NextStall ==
    \/ /\ At("reader", "idle")
       /\ Len(callbacks) < MaxStallCallbacks
       /\ \E cb \in StallObservers : RegisterCallback(cb)
    \/ alert_counter < MaxStallAlerts /\ BeginSystemAlert
    \/ /\ alert_counter < MaxStallAlerts
       /\ reading_seq < MaxStallReadings
       /\ BeginReading([aqi |-> 160])
    \/ alert_counter < MaxStallAlerts /\ BeginForecast(StallForecast)
    \/ StallStep

SpecStall == InitStall /\ [][NextStall]_vars /\ WF_vars(StallStep)

\* C27: every call of process_reading, process_forecast and
\* create_system_alert returns in the end, whatever the observers do.
C27_CallsReturn == (pc["reader"] # "idle") ~> (pc["reader"] = "idle")

----------------------------------------------------------------------------
(* Claims on repeated and out-of-scale readings *)

\* C28: the active list never holds two unacknowledged Threshold alerts of
\* the same band.
C28_OnePerBand ==
    \A i, j \in 1..Len(active_alerts) :
        (/\ i < j
         /\ IsThreshold(active_alerts[i]) /\ ~active_alerts[i].acknowledged
         /\ IsThreshold(active_alerts[j]) /\ ~active_alerts[j].acknowledged)
        => active_alerts[i].metadata.category # active_alerts[j].metadata.category

\* SpecLowAqi: readings at the low end of the scale and below it
MaxBelowZero == 10
MaxLowAqi == 110
MaxLowAqiReadings == 1

LowAqis == (0 - MaxBelowZero)..MaxLowAqi

NextLowAqi ==
    /\ reading_seq < MaxLowAqiReadings
    /\ \E aqi \in LowAqis : ProcessReading([aqi |-> aqi])

SpecLowAqi == Init /\ [][NextLowAqi]_vars

\* C29: process_reading returns a Threshold alert only for an AQI of 101 or
\* more, and none for an AQI below 0.
C29_NoAlertBelow101 ==
    (ret.op = "process_reading" /\ ThresholdAlerts(ret.value) # {})
    => ret.reading.aqi >= 101

----------------------------------------------------------------------------
(* Claims on what a creation leaves behind, checked under Spec *)

\* the alerts a call returned
ReturnedAlerts(r) ==
    IF r.op \in {"process_reading", "process_forecast"}
    THEN {r.value[i] : i \in 1..Len(r.value)}
    ELSE IF r.op = "create_system_alert" THEN {r.value}
    ELSE {}

\* the cooldown key of an alert that has one
KeyOf(a) ==
    CASE a.type = "threshold"  -> ThresholdKey(a.metadata.category)
      [] a.type = "anomaly"    -> <<"anomaly">>
      [] a.type = "trend"      -> <<"trend_worsening">>
      [] a.type = "predictive" -> PredictiveKey(a.aqi_value[1])

\* the keys whose record the step wrote
Recorded ==
    {key \in DOMAIN last_alert_times' :
        \/ key \notin DOMAIN last_alert_times
        \/ last_alert_times'[key] # last_alert_times[key]}

====
